---- MODULE Spec2Model ----
(***************************************************************************)
(* Model of the aspen-wasm-plugin host runtime.                            *)
(*                                                                         *)
(* Spec      one WasmPluginHandler (handler.rs) with its PluginScheduler   *)
(*           (scheduler.rs), its PluginEventRouter (events.rs), the shared *)
(*           sandbox mutex and the blocking tasks that run guest entry     *)
(*           points, under every interleaving of concurrent callers.       *)
(* FairSpec  Spec plus the fairness the tokio runtime gives the steps of   *)
(*           call_shutdown (its future is polled, its timeout fires).      *)
(* SpecHost  the key-value host functions of host.rs called by the guests  *)
(*           of two plugins against one key-value store.                   *)
(***************************************************************************)
EXTENDS Naturals, Integers, Sequences, FiniteSets, TLC

(***************************************************************************)
(* Bounds of the model.                                                    *)
(***************************************************************************)
\* number of calls made on the handler (each caller makes one call)
MaxCalls == 2
\* number of spawn_blocking closures of timer tasks that can be in flight
MaxTimerTasks == 1
\* number of commands a queue holds before the guest stops enqueueing
MaxQueue == 1
\* number of distinct timer names the guest uses
MaxTimerNames == 1

(***************************************************************************)
(* Program constants (aspen_plugin_api), scaled down.                      *)
(***************************************************************************)
MAX_TIMERS_PER_PLUGIN == 2
MAX_HOOK_SUBSCRIPTIONS_PER_PLUGIN == 2

Callers == 1..MaxCalls
TimerTaskIds == (MaxCalls + 1)..(MaxCalls + MaxTimerTasks)
TaskIds == 1..(MaxCalls + MaxTimerTasks)
TimerNames == 1..MaxTimerNames
Plugins == {1, 2}

\* PluginState (handler.rs, state()/set_state())
PluginState == {"Loading", "Initializing", "Ready", "Degraded", "Stopping", "Stopped", "Failed"}

\* topic patterns the guest subscribes to and topics delivered, as the
\* segment lists split('.') produces
Patterns == {<<"hooks", ">">>}
Topics == {<<"hooks", "kv">>, <<"jobs">>}

VARIABLES
  state,                  \* WasmPluginHandler.state
  sandbox,                \* the sandbox mutex: holder task (0 = free) and poison flag
  scheduler,              \* WasmPluginHandler.scheduler (OnceLock) is set
  event_router,           \* WasmPluginHandler.event_router (OnceLock) is set
  timers,                 \* PluginScheduler.timers: name -> timer task
  patterns,               \* PluginEventRouter.patterns
  scheduler_requests,     \* queue shared by host context and handler
  subscription_requests,  \* queue shared by host context and handler
  calls,                  \* the callers of the handler's operations
  tasks,                  \* spawn_blocking closures: queued on the mutex, running the guest, done
  shutdown_invoked,       \* history: plugin_shutdown has been entered in the guest
  last_return,            \* history: operation and result of the call that returned last
  ctx,                    \* PluginHostContext of each plugin
  kv_calls,               \* requests the last host function call sent to the key-value store
  host_ret,               \* tagged result of the last host function call
  plugins,                \* LivePluginRegistry.plugins: plugin name -> loaded handler
  plugins_lock,           \* the RwLock around plugins: its writer and its readers
  handlers,               \* the handlers load_plugin has constructed: name and state
  manifests,              \* the manifest entries of the key-value store
  registry_calls,         \* the callers of the registry's operations
  fn_args,                \* arguments of the pure function under evaluation
  fn_result               \* what it returned

vars == <<state, sandbox, scheduler, event_router, timers, patterns,
          scheduler_requests, subscription_requests, calls, tasks,
          shutdown_invoked, last_return, ctx, kv_calls, host_ret,
          plugins, plugins_lock, handlers, manifests, registry_calls,
          fn_args, fn_result>>

handler_vars == <<state, sandbox, scheduler, event_router, timers, patterns,
                  scheduler_requests, subscription_requests, calls, tasks,
                  shutdown_invoked, last_return>>

host_vars == <<ctx, kv_calls, host_ret>>

registry_vars == <<plugins, plugins_lock, handlers, manifests, registry_calls>>

pure_vars == <<fn_args, fn_result>>

(***************************************************************************)
(* Strings are sequences of characters.                                    *)
(***************************************************************************)
starts_with(s, p) == Len(p) <= Len(s) /\ SubSeq(s, 1, Len(p)) = p

\* aspen_constants::plugin::DEFAULT_PLUGIN_KV_PREFIX_TEMPLATE ("__plugin:")
DEFAULT_PLUGIN_KV_PREFIX_TEMPLATE == <<"_", "_", "p", "l", "u", "g", "i", "n", ":">>

\* PluginPermissions: one flag per capability, default all denied
PermissionsDefault ==
  [kv_read |-> FALSE, kv_write |-> FALSE, blob_read |-> FALSE, blob_write |-> FALSE,
   timers |-> FALSE, hooks |-> FALSE]

PermissionsAll ==
  [kv_read |-> TRUE, kv_write |-> TRUE, blob_read |-> TRUE, blob_write |-> TRUE,
   timers |-> TRUE, hooks |-> TRUE]

\* a with_kv_prefixes whose default leaves the plugin name out
with_kv_prefixes_shared_default(plugin_name, prefixes) ==
  IF prefixes = <<>>
    THEN << DEFAULT_PLUGIN_KV_PREFIX_TEMPLATE \o <<":">> >>
    ELSE prefixes

\* PluginHostContext::with_kv_prefixes
with_kv_prefixes(plugin_name, prefixes) ==
  IF prefixes = <<>>
    THEN << DEFAULT_PLUGIN_KV_PREFIX_TEMPLATE \o plugin_name \o <<":">> >>
    ELSE prefixes

\* PluginHostContext::new(...).with_kv_prefixes(..).with_permissions(..)
HostContext(plugin_name, prefixes, permissions) ==
  [plugin_name |-> plugin_name,
   allowed_kv_prefixes |-> with_kv_prefixes(plugin_name, prefixes),
   permissions |-> permissions]

\* check_permission: Ok iff granted
check_permission(granted) == granted

(***************************************************************************)
(* Records of the handler model.                                           *)
(***************************************************************************)
NoCall == [op |-> "none", pc |-> "idle", ret |-> "none", cmds |-> <<>>]
\* aborted is history: the operation whose abort of the awaiting timer task
\* found the closure not yet in the guest ("no" when there was none)
NoTask == [fn |-> "none", st |-> "free", out |-> "none", waited |-> FALSE, aborted |-> "no"]
NoTimer == [repeating |-> FALSE, pc |-> "none", task |-> 0]

\* a spawn_blocking closure that will lock the sandbox and call entry point fn
SpawnBlocking(fn) ==
  [fn |-> fn, st |-> "queued", out |-> "none", waited |-> TRUE, aborted |-> "no"]

\* the caller stops waiting for closure t (timeout, or abort of the awaiting
\* task): a finished closure is dropped, an unfinished one runs on detached
Detach(tk, t) ==
  IF t = 0 THEN tk
  ELSE IF tk[t].st = "done" THEN [tk EXCEPT ![t] = NoTask]
  ELSE [tk EXCEPT ![t].waited = FALSE]

FreeTimerTasks == {t \in TimerTaskIds : tasks[t].st = "free"}

\* caller c has not made its call yet (each caller makes one call); of the
\* callers that have not, the lowest makes the next call
Available(c) == calls[c].pc = "idle"

NextCaller(c) ==
  /\ Available(c)
  /\ \A d \in Callers : d < c => ~Available(d)

(***************************************************************************)
(* events.rs: pattern matching and the subscription set                    *)
(***************************************************************************)
\* the string a sequence of characters spells
RECURSIVE concat(_)
concat(chars) == IF chars = <<>> THEN "" ELSE Head(chars) \o concat(Tail(chars))

\* str::split('.') of a string given as its characters: the segments between
\* the dots, of which there is always at least one (possibly empty)
RECURSIVE split(_)
split(chars) ==
  IF \A i \in DOMAIN chars : chars[i] # "."
    THEN <<concat(chars)>>
    ELSE LET dot == CHOOSE i \in DOMAIN chars :
                      chars[i] = "." /\ \A j \in 1..(i - 1) : chars[j] # "."
         IN <<concat(SubSeq(chars, 1, dot - 1))>> \o split(SubSeq(chars, dot + 1, Len(chars)))

RECURSIVE pattern_walk(_, _, _, _)
pattern_walk(pattern_parts, topic_parts, pi, ti) ==
  IF pi > Len(pattern_parts) THEN ti > Len(topic_parts)
  ELSE IF pattern_parts[pi] = ">" THEN TRUE
  ELSE IF ti > Len(topic_parts) THEN FALSE
  ELSE IF pattern_parts[pi] # "*" /\ pattern_parts[pi] # topic_parts[ti] THEN FALSE
  ELSE pattern_walk(pattern_parts, topic_parts, pi + 1, ti + 1)

\* a match that also wants as many topic segments as pattern tokens
pattern_matches_same_length(pattern_parts, topic_parts) ==
  Len(pattern_parts) = Len(topic_parts) /\ pattern_walk(pattern_parts, topic_parts, 1, 1)

pattern_matches(pattern_parts, topic_parts) == pattern_walk(pattern_parts, topic_parts, 1, 1)

has_matching_subscription(pats, topic) == \E p \in pats : pattern_matches(p, topic)

\* a subscribe that checks the limit before it looks for the pattern
subscribe_limit_first(pats, pattern) ==
  IF Cardinality(pats) >= MAX_HOOK_SUBSCRIPTIONS_PER_PLUGIN THEN [ok |-> FALSE, patterns |-> pats]
  ELSE [ok |-> TRUE, patterns |-> pats \cup {pattern}]

\* a subscribe whose limit check lets one pattern too many in
subscribe_off_by_one(pats, pattern) ==
  IF pattern \in pats THEN [ok |-> TRUE, patterns |-> pats]
  ELSE IF Cardinality(pats) > MAX_HOOK_SUBSCRIPTIONS_PER_PLUGIN THEN [ok |-> FALSE, patterns |-> pats]
  ELSE [ok |-> TRUE, patterns |-> pats \cup {pattern}]

\* PluginEventRouter::subscribe: its result and the set after the call
subscribe(pats, pattern) ==
  IF pattern \in pats THEN [ok |-> TRUE, patterns |-> pats]
  ELSE IF Cardinality(pats) >= MAX_HOOK_SUBSCRIPTIONS_PER_PLUGIN THEN [ok |-> FALSE, patterns |-> pats]
  ELSE [ok |-> TRUE, patterns |-> pats \cup {pattern}]

unsubscribe(pats, pattern) == pats \ {pattern}

unsubscribe_all(pats) == {}

(***************************************************************************)
(* scheduler.rs: the timer map.  An operation returns the map and the      *)
(* blocking tasks after the call (abort detaches the closure in flight).   *)
(***************************************************************************)
\* timers.len(): the entries of the map, finished one-shot tasks included
TimerCount(tm) == Cardinality({n \in DOMAIN tm : tm[n].pc # "none"})

\* JoinHandle::abort of the timer task stored under name, called by operation
\* by: the task stops at its await and drops the JoinHandle of its closure
abort(tm, tk, name, by) ==
  LET t == tm[name].task
      d == Detach(tk, t)
  IN IF t # 0 /\ tk[t].st = "queued" THEN [d EXCEPT ![t].aborted = by] ELSE d

\* a schedule whose limit check lets one timer too many in
schedule_off_by_one(tm, tk, config) ==
  IF tm[config.name].pc = "none" /\ TimerCount(tm) > MAX_TIMERS_PER_PLUGIN
    THEN [ok |-> FALSE, timers |-> tm, tasks |-> tk]
    ELSE [ok |-> TRUE,
          timers |-> [tm EXCEPT ![config.name] =
                        [repeating |-> config.repeating, pc |-> "sleeping", task |-> 0]],
          tasks |-> abort(tm, tk, config.name, "schedule")]

\* PluginScheduler::schedule: its result, the map and the tasks after the call
schedule(tm, tk, config) ==
  IF tm[config.name].pc = "none" /\ TimerCount(tm) >= MAX_TIMERS_PER_PLUGIN
    THEN [ok |-> FALSE, timers |-> tm, tasks |-> tk]
    ELSE [ok |-> TRUE,
          timers |-> [tm EXCEPT ![config.name] =
                        [repeating |-> config.repeating, pc |-> "sleeping", task |-> 0]],
          tasks |-> abort(tm, tk, config.name, "schedule")]

\* PluginScheduler::cancel: ok is its result (the name was in the map)
cancel(tm, tk, name) ==
  IF tm[name].pc # "none"
    THEN [ok |-> TRUE, timers |-> [tm EXCEPT ![name] = NoTimer],
          tasks |-> abort(tm, tk, name, "cancel")]
    ELSE [ok |-> FALSE, timers |-> tm, tasks |-> tk]

RECURSIVE abort_all(_, _, _)
abort_all(tm, tk, names) ==
  IF names = {} THEN tk
  ELSE LET n == CHOOSE x \in names : TRUE
       IN abort_all(tm, abort(tm, tk, n, "cancel_all"), names \ {n})

cancel_all(tm, tk) ==
  [timers |-> [n \in DOMAIN tm |-> NoTimer], tasks |-> abort_all(tm, tk, DOMAIN tm)]

(***************************************************************************)
(* host.rs: the host functions that enqueue commands.  Each returns the    *)
(* tagged result and the queue after the call.                             *)
(***************************************************************************)
\* inputs of schedule_timer: the JSON of a TimerConfig
TimerConfigs ==
  [kind : {"valid"}, name : TimerNames, repeating : BOOLEAN]
    \cup [kind : {"invalid_json", "empty_name", "long_name"}, name : {0}, repeating : {FALSE}]

\* a schedule_timer that queues the command before it looks at the name
schedule_timer_pushes_first(c, reqs, config) ==
  IF ~check_permission(c.permissions.timers) THEN [ret |-> "err_permission", reqs |-> reqs]
  ELSE IF config.kind = "invalid_json" THEN [ret |-> "err_config", reqs |-> reqs]
  ELSE LET pushed == Append(reqs, [type |-> "Schedule", name |-> config.name,
                                   repeating |-> config.repeating])
       IN IF config.kind = "empty_name" THEN [ret |-> "err_name_empty", reqs |-> pushed]
          ELSE IF config.kind = "long_name" THEN [ret |-> "err_name_long", reqs |-> pushed]
          ELSE [ret |-> "ok", reqs |-> pushed]

schedule_timer(c, reqs, config) ==
  IF ~check_permission(c.permissions.timers) THEN [ret |-> "err_permission", reqs |-> reqs]
  ELSE IF config.kind = "invalid_json" THEN [ret |-> "err_config", reqs |-> reqs]
  ELSE IF config.kind = "empty_name" THEN [ret |-> "err_name_empty", reqs |-> reqs]
  ELSE IF config.kind = "long_name" THEN [ret |-> "err_name_long", reqs |-> reqs]
  ELSE [ret |-> "ok",
        reqs |-> Append(reqs, [type |-> "Schedule", name |-> config.name,
                               repeating |-> config.repeating])]

cancel_timer(c, reqs, name) ==
  IF ~check_permission(c.permissions.timers) THEN [ret |-> "err_permission", reqs |-> reqs]
  ELSE [ret |-> "ok",
        reqs |-> Append(reqs, [type |-> "Cancel", name |-> name, repeating |-> FALSE])]

\* inputs of hook_subscribe: a pattern, the empty string or an over-long string
PatternInputs == [kind : {"valid"}, pattern : Patterns]
                   \cup [kind : {"empty", "long"}, pattern : {<<>>}]

hook_subscribe(c, reqs, input) ==
  IF ~check_permission(c.permissions.hooks) THEN [ret |-> "err_permission", reqs |-> reqs]
  ELSE IF input.kind = "empty" THEN [ret |-> "err_pattern_empty", reqs |-> reqs]
  ELSE IF input.kind = "long" THEN [ret |-> "err_pattern_long", reqs |-> reqs]
  ELSE [ret |-> "ok",
        reqs |-> Append(reqs, [type |-> "Subscribe", pattern |-> input.pattern])]

hook_unsubscribe(c, reqs, pattern) ==
  IF ~check_permission(c.permissions.hooks) THEN [ret |-> "err_permission", reqs |-> reqs]
  ELSE [ret |-> "ok",
        reqs |-> Append(reqs, [type |-> "Unsubscribe", pattern |-> pattern])]

(***************************************************************************)
(* Blocking closures: sandbox.lock(), call_guest_function, unlock.         *)
(***************************************************************************)
\* a mutex that never excludes
lock_available_always(sb) == TRUE

\* std::sync::Mutex::lock succeeds when no closure holds the guard
lock_available(sb) == sb.holder = 0

\* what call_guest_function of an entry point can end in:
\*   ok       Ok(output), output parses and reports success
\*   not_ok   Ok(output), output parses and reports {"ok": false}
\*   garbage  Ok(output), output does not parse
\*   fault    Err(e) from the guest
\*   panic    the closure panics while holding the guard
GuestOutcomes(fn) ==
  CASE fn = "plugin_init" -> {"ok", "not_ok", "garbage", "fault", "panic"}
    [] fn = "plugin_health" -> {"ok", "not_ok", "garbage", "fault", "panic"}
    [] fn = "handle_request" -> {"ok", "garbage", "fault", "panic"}
    [] OTHER -> {"ok", "fault", "panic"}

\* the closure returns: its JoinHandle holds the result if someone still waits
Complete(tk, t, out) ==
  IF tk[t].waited THEN [tk EXCEPT ![t].st = "done", ![t].out = out]
  ELSE [tk EXCEPT ![t] = NoTask]

\* a closure that calls the guest whatever the state of the mutex
blocking_lock_ignores_poison(t) ==
  /\ tasks[t].st = "queued"
  /\ lock_available(sandbox)
  /\ tasks' = [tasks EXCEPT ![t].st = "running"]
  /\ sandbox' = [sandbox EXCEPT !.holder = t]
  /\ shutdown_invoked' = (shutdown_invoked \/ tasks[t].fn = "plugin_shutdown")
  /\ UNCHANGED <<state, scheduler, event_router, timers, patterns,
                 scheduler_requests, subscription_requests, calls, last_return,
                 host_vars, registry_vars, pure_vars>>

blocking_lock(t) ==
  /\ tasks[t].st = "queued"
  /\ lock_available(sandbox)
  /\ IF sandbox.poisoned
       THEN /\ tasks' = Complete(tasks, t, "poisoned")
            /\ UNCHANGED <<sandbox, shutdown_invoked>>
       ELSE /\ tasks' = [tasks EXCEPT ![t].st = "running"]
            /\ sandbox' = [sandbox EXCEPT !.holder = t]
            /\ shutdown_invoked' = (shutdown_invoked \/ tasks[t].fn = "plugin_shutdown")
  /\ UNCHANGED <<state, scheduler, event_router, timers, patterns,
                 scheduler_requests, subscription_requests, calls, last_return, host_vars, registry_vars, pure_vars>>

blocking_finish(t, out) ==
  /\ tasks[t].st = "running"
  /\ out \in GuestOutcomes(tasks[t].fn)
  /\ tasks' = Complete(tasks, t, out)
  /\ sandbox' = [holder |-> 0, poisoned |-> (sandbox.poisoned \/ out = "panic")]
  /\ UNCHANGED <<state, scheduler, event_router, timers, patterns,
                 scheduler_requests, subscription_requests, calls,
                 shutdown_invoked, last_return, host_vars, registry_vars, pure_vars>>

\* the guest, running in closure t, calls a host function of plugin 1
host_schedule_timer(t, config) ==
  /\ tasks[t].st = "running"
  /\ Len(scheduler_requests) < MaxQueue
  /\ scheduler_requests' = schedule_timer(ctx[1], scheduler_requests, config).reqs
  /\ UNCHANGED <<state, sandbox, scheduler, event_router, timers, patterns,
                 subscription_requests, calls, tasks, shutdown_invoked, last_return, host_vars, registry_vars, pure_vars>>

host_cancel_timer(t, name) ==
  /\ tasks[t].st = "running"
  /\ Len(scheduler_requests) < MaxQueue
  /\ scheduler_requests' = cancel_timer(ctx[1], scheduler_requests, name).reqs
  /\ UNCHANGED <<state, sandbox, scheduler, event_router, timers, patterns,
                 subscription_requests, calls, tasks, shutdown_invoked, last_return, host_vars, registry_vars, pure_vars>>

host_hook_subscribe(t, input) ==
  /\ tasks[t].st = "running"
  /\ Len(subscription_requests) < MaxQueue
  /\ subscription_requests' = hook_subscribe(ctx[1], subscription_requests, input).reqs
  /\ UNCHANGED <<state, sandbox, scheduler, event_router, timers, patterns,
                 scheduler_requests, calls, tasks, shutdown_invoked, last_return, host_vars, registry_vars, pure_vars>>

host_hook_unsubscribe(t, pattern) ==
  /\ tasks[t].st = "running"
  /\ Len(subscription_requests) < MaxQueue
  /\ subscription_requests' = hook_unsubscribe(ctx[1], subscription_requests, pattern).reqs
  /\ UNCHANGED <<state, sandbox, scheduler, event_router, timers, patterns,
                 scheduler_requests, calls, tasks, shutdown_invoked, last_return, host_vars, registry_vars, pure_vars>>

\* an await of closure t that has no timeout
await_blocking_forever(t) ==
  IF tasks[t].st = "done"
    THEN {[res |-> tasks[t].out, tasks |-> [tasks EXCEPT ![t] = NoTask]]}
    ELSE {}

\* tokio::time::timeout(.., spawn_blocking(..)).await of closure t: the
\* results the awaiting task can resume with now, and the tasks afterwards
await_blocking(t) ==
  IF tasks[t].st = "done"
    THEN {[res |-> tasks[t].out, tasks |-> [tasks EXCEPT ![t] = NoTask]]}
    ELSE {[res |-> "timeout", tasks |-> Detach(tasks, t)]}

(***************************************************************************)
(* handler.rs: WasmPluginHandler.  An operation is a sequence of steps of  *)
(* its caller, one per suspension point.                                   *)
(***************************************************************************)
set_state(value) == state' = value

\* a state check that lets only Ready through
is_dispatchable_ready_only(s) == s = "Ready"

\* handle: the states in which a request is dispatched to the guest
is_dispatchable(s) == s \in {"Ready", "Degraded"}

\* the caller's operation returns ret
Return(c, op, ret) ==
  /\ calls' = [calls EXCEPT ![c] = [NoCall EXCEPT !.pc = "returned"]]
  /\ last_return' = [op |-> op, ret |-> ret]

\* process_scheduler_commands then process_subscription_commands, from the
\* point where caller c, about to return ret, has no command in hand: drain
\* the next queue whose consumer exists, or return
process_commands(c, op, ret, from) ==
  IF from = "scheduler" /\ scheduler' /\ scheduler_requests # <<>>
    THEN /\ calls' = [calls EXCEPT ![c] =
                        [op |-> op, pc |-> "apply_sched", ret |-> ret, cmds |-> scheduler_requests]]
         /\ scheduler_requests' = <<>>
         /\ UNCHANGED <<subscription_requests, last_return>>
  ELSE IF event_router' /\ subscription_requests # <<>>
    THEN /\ calls' = [calls EXCEPT ![c] =
                        [op |-> op, pc |-> "apply_sub", ret |-> ret, cmds |-> subscription_requests]]
         /\ subscription_requests' = <<>>
         /\ UNCHANGED <<scheduler_requests, last_return>>
  ELSE /\ Return(c, op, ret)
       /\ UNCHANGED <<scheduler_requests, subscription_requests>>

\* scheduler.schedule(config).await / scheduler.cancel(&name).await of the
\* next drained command
process_scheduler_commands(c) ==
  /\ calls[c].pc = "apply_sched"
  /\ LET cmd == Head(calls[c].cmds)
         r == IF cmd.type = "Schedule"
                THEN schedule(timers, tasks, cmd)
                ELSE cancel(timers, tasks, cmd.name)
     IN /\ timers' = r.timers
        /\ tasks' = r.tasks
        /\ UNCHANGED <<scheduler, event_router>>
        /\ IF Tail(calls[c].cmds) # <<>>
             THEN /\ calls' = [calls EXCEPT ![c].cmds = Tail(calls[c].cmds)]
                  /\ UNCHANGED <<scheduler_requests, subscription_requests, last_return>>
             ELSE process_commands(c, calls[c].op, calls[c].ret, "subscription")
  /\ UNCHANGED <<state, sandbox, patterns, shutdown_invoked, host_vars, registry_vars, pure_vars>>

\* router.subscribe(pattern).await / router.unsubscribe(&pattern).await of
\* the next drained command
process_subscription_commands(c) ==
  /\ calls[c].pc = "apply_sub"
  /\ LET cmd == Head(calls[c].cmds)
     IN /\ patterns' = IF cmd.type = "Subscribe"
                         THEN subscribe(patterns, cmd.pattern).patterns
                         ELSE unsubscribe(patterns, cmd.pattern)
        /\ IF Tail(calls[c].cmds) # <<>>
             THEN /\ calls' = [calls EXCEPT ![c].cmds = Tail(calls[c].cmds)]
                  /\ UNCHANGED last_return
             ELSE Return(c, calls[c].op, calls[c].ret)
  /\ UNCHANGED <<state, sandbox, scheduler, event_router, timers, tasks,
                 scheduler_requests, subscription_requests, shutdown_invoked, host_vars, registry_vars, pure_vars>>

\* call_init up to the await of the blocking closure
call_init_begin(c) ==
  /\ NextCaller(c)
  /\ set_state("Initializing")
  /\ tasks' = [tasks EXCEPT ![c] = SpawnBlocking("plugin_init")]
  /\ calls' = [calls EXCEPT ![c] = [op |-> "call_init", pc |-> "await", ret |-> "none", cmds |-> <<>>]]
  /\ UNCHANGED <<sandbox, scheduler, event_router, timers, patterns, scheduler_requests,
                 subscription_requests, shutdown_invoked, last_return, host_vars, registry_vars, pure_vars>>

\* call_init from the result of the await on
call_init_finish(c) ==
  /\ calls[c].op = "call_init" /\ calls[c].pc = "await"
  /\ \E r \in await_blocking(c) :
       /\ tasks' = r.tasks
       /\ CASE r.res = "ok" ->
                 /\ set_state("Ready")
                 /\ scheduler' = TRUE
                 /\ event_router' = TRUE
                 /\ process_commands(c, "call_init", "Ok", "scheduler")
            [] r.res = "garbage" ->
                 /\ Return(c, "call_init", "Err")
                 /\ UNCHANGED <<state, scheduler, event_router, scheduler_requests,
                                subscription_requests>>
            [] OTHER ->
                 /\ set_state("Failed")
                 /\ Return(c, "call_init", "Err")
                 /\ UNCHANGED <<scheduler, event_router, scheduler_requests,
                                subscription_requests>>
  /\ UNCHANGED <<sandbox, timers, patterns, shutdown_invoked, host_vars, registry_vars, pure_vars>>

\* call_shutdown: set_state(Stopping)
call_shutdown_begin(c) ==
  /\ NextCaller(c)
  /\ set_state("Stopping")
  /\ calls' = [calls EXCEPT ![c] = [op |-> "call_shutdown", pc |-> "cancel_all", ret |-> "none", cmds |-> <<>>]]
  /\ UNCHANGED <<sandbox, scheduler, event_router, timers, patterns, scheduler_requests,
                 subscription_requests, tasks, shutdown_invoked, last_return, host_vars, registry_vars, pure_vars>>

\* call_shutdown: scheduler.cancel_all().await when the scheduler exists
call_shutdown_cancel_all(c) ==
  /\ calls[c].op = "call_shutdown" /\ calls[c].pc = "cancel_all"
  /\ LET r == IF scheduler THEN cancel_all(timers, tasks)
                           ELSE [timers |-> timers, tasks |-> tasks]
     IN timers' = r.timers /\ tasks' = r.tasks
  /\ calls' = [calls EXCEPT ![c].pc = "unsubscribe_all"]
  /\ UNCHANGED <<state, sandbox, scheduler, event_router, patterns, scheduler_requests,
                 subscription_requests, shutdown_invoked, last_return, host_vars, registry_vars, pure_vars>>

\* call_shutdown: router.unsubscribe_all().await when the router exists, then
\* up to the await of the blocking closure
call_shutdown_unsubscribe_all(c) ==
  /\ calls[c].op = "call_shutdown" /\ calls[c].pc = "unsubscribe_all"
  /\ patterns' = IF event_router THEN unsubscribe_all(patterns) ELSE patterns
  /\ tasks' = [tasks EXCEPT ![c] = SpawnBlocking("plugin_shutdown")]
  /\ calls' = [calls EXCEPT ![c].pc = "await"]
  /\ UNCHANGED <<state, sandbox, scheduler, event_router, timers, scheduler_requests,
                 subscription_requests, shutdown_invoked, last_return, host_vars, registry_vars, pure_vars>>

\* call_shutdown from the result of the await on
call_shutdown_finish(c) ==
  /\ calls[c].op = "call_shutdown" /\ calls[c].pc = "await"
  /\ \E r \in await_blocking(c) :
       /\ tasks' = r.tasks
       /\ set_state("Stopped")
       /\ Return(c, "call_shutdown", IF r.res \in {"ok", "timeout"} THEN "Ok" ELSE "Err")
  /\ UNCHANGED <<sandbox, scheduler, event_router, timers, patterns, scheduler_requests,
                 subscription_requests, shutdown_invoked, host_vars, registry_vars, pure_vars>>

\* call_health up to the await of the blocking closure
call_health_begin(c) ==
  /\ NextCaller(c)
  /\ tasks' = [tasks EXCEPT ![c] = SpawnBlocking("plugin_health")]
  /\ calls' = [calls EXCEPT ![c] = [op |-> "call_health", pc |-> "await", ret |-> "none", cmds |-> <<>>]]
  /\ UNCHANGED <<state, sandbox, scheduler, event_router, timers, patterns, scheduler_requests,
                 subscription_requests, shutdown_invoked, last_return, host_vars, registry_vars, pure_vars>>

\* a call_health that declares the plugin failed when the check does not pass
call_health_finish_fails_plugin(c) ==
  /\ calls[c].op = "call_health" /\ calls[c].pc = "await"
  /\ \E r \in await_blocking(c) :
       /\ tasks' = r.tasks
       /\ IF r.res = "ok"
            THEN /\ Return(c, "call_health", "healthy")
                 /\ UNCHANGED state
            ELSE /\ set_state(IF r.res = "timeout" THEN "Degraded" ELSE "Failed")
                 /\ Return(c, "call_health", "degraded")
  /\ UNCHANGED <<sandbox, scheduler, event_router, timers, patterns, scheduler_requests,
                 subscription_requests, shutdown_invoked, host_vars, registry_vars, pure_vars>>

\* call_health from the result of the await on
call_health_finish(c) ==
  /\ calls[c].op = "call_health" /\ calls[c].pc = "await"
  /\ \E r \in await_blocking(c) :
       /\ tasks' = r.tasks
       /\ IF r.res = "ok"
            THEN /\ Return(c, "call_health", "healthy")
                 /\ UNCHANGED state
            ELSE /\ set_state("Degraded")
                 /\ Return(c, "call_health", "degraded")
  /\ UNCHANGED <<sandbox, scheduler, event_router, timers, patterns, scheduler_requests,
                 subscription_requests, shutdown_invoked, host_vars, registry_vars, pure_vars>>

\* handle: the state check, then up to the await of the blocking closure
handle_begin(c) ==
  /\ NextCaller(c)
  /\ IF is_dispatchable(state)
       THEN /\ tasks' = [tasks EXCEPT ![c] = SpawnBlocking("handle_request")]
            /\ calls' = [calls EXCEPT ![c] = [op |-> "handle", pc |-> "await", ret |-> "none", cmds |-> <<>>]]
            /\ UNCHANGED last_return
       ELSE /\ Return(c, "handle", "NotReady")
            /\ UNCHANGED tasks
  /\ UNCHANGED <<state, sandbox, scheduler, event_router, timers, patterns, scheduler_requests,
                 subscription_requests, shutdown_invoked, host_vars, registry_vars, pure_vars>>

\* handle from the result of the await on: the error paths return before the
\* queues are processed; the response is deserialized after
handle_finish(c) ==
  /\ calls[c].op = "handle" /\ calls[c].pc = "await"
  /\ UNCHANGED <<scheduler, event_router>>
  /\ \E r \in await_blocking(c) :
       /\ tasks' = r.tasks
       /\ CASE r.res = "ok" -> process_commands(c, "handle", "Ok", "scheduler")
            [] r.res = "garbage" -> process_commands(c, "handle", "Err", "scheduler")
            [] OTHER -> /\ Return(c, "handle", "Err")
                        /\ UNCHANGED <<scheduler_requests, subscription_requests>>
  /\ UNCHANGED <<state, sandbox, timers, patterns, shutdown_invoked, host_vars, registry_vars, pure_vars>>

(***************************************************************************)
(* events.rs: PluginEventRouter::deliver, called by code that obtained the *)
(* router from WasmPluginHandler::event_router().                          *)
(***************************************************************************)
deliver_begin(c, topic) ==
  /\ NextCaller(c)
  /\ event_router
  /\ IF has_matching_subscription(patterns, topic)
       THEN /\ tasks' = [tasks EXCEPT ![c] = SpawnBlocking("plugin_on_hook_event")]
            /\ calls' = [calls EXCEPT ![c] = [op |-> "deliver", pc |-> "await", ret |-> "none", cmds |-> <<>>]]
            /\ UNCHANGED last_return
       ELSE /\ Return(c, "deliver", "false")
            /\ UNCHANGED tasks
  /\ UNCHANGED <<state, sandbox, scheduler, event_router, timers, patterns, scheduler_requests,
                 subscription_requests, shutdown_invoked, host_vars, registry_vars, pure_vars>>

deliver_finish(c) ==
  /\ calls[c].op = "deliver" /\ calls[c].pc = "await"
  /\ \E r \in await_blocking(c) :
       /\ tasks' = r.tasks
       /\ Return(c, "deliver", "true")
  /\ UNCHANGED <<state, sandbox, scheduler, event_router, timers, patterns, scheduler_requests,
                 subscription_requests, shutdown_invoked, host_vars, registry_vars, pure_vars>>

(***************************************************************************)
(* scheduler.rs: the task spawned by schedule for timer name               *)
(***************************************************************************)
\* the sleep ends: spawn the blocking closure and await it
timer_fire(name) ==
  /\ timers[name].pc = "sleeping"
  /\ FreeTimerTasks # {}
  /\ LET t == CHOOSE x \in FreeTimerTasks : \A y \in FreeTimerTasks : x <= y
     IN /\ tasks' = [tasks EXCEPT ![t] = SpawnBlocking("plugin_on_timer")]
        /\ timers' = [timers EXCEPT ![name].pc = "await", ![name].task = t]
  /\ UNCHANGED <<state, sandbox, scheduler, event_router, patterns, scheduler_requests,
                 subscription_requests, calls, shutdown_invoked, last_return, host_vars, registry_vars, pure_vars>>

\* a timer task that gives up when the callback exceeds its timeout
timer_await_stops_on_timeout(name) ==
  /\ timers[name].pc = "await"
  /\ \E r \in await_blocking(timers[name].task) :
       /\ tasks' = r.tasks
       /\ timers' = [timers EXCEPT
                       ![name].pc = IF timers[name].repeating /\ r.res # "timeout"
                                      THEN "sleeping" ELSE "finished",
                       ![name].task = 0]
  /\ UNCHANGED <<state, sandbox, scheduler, event_router, patterns, scheduler_requests,
                 subscription_requests, calls, shutdown_invoked, last_return, host_vars, registry_vars, pure_vars>>

\* the await ends (result or timeout): a one-shot task ends, its handle stays
\* in the map; a repeating one sleeps again
timer_await(name) ==
  /\ timers[name].pc = "await"
  /\ \E r \in await_blocking(timers[name].task) :
       tasks' = r.tasks
  /\ timers' = [timers EXCEPT ![name].pc = IF timers[name].repeating THEN "sleeping" ELSE "finished",
                              ![name].task = 0]
  /\ UNCHANGED <<state, sandbox, scheduler, event_router, patterns, scheduler_requests,
                 subscription_requests, calls, shutdown_invoked, last_return, host_vars, registry_vars, pure_vars>>

(***************************************************************************)
(* Spec: one handler, constructed by WasmPluginHandler::new (Loading).     *)
(***************************************************************************)
\* no host function has been called yet
NoHostRet == [plugin |-> 0, fn |-> "none", op |-> "none", tag |-> 0, reason |-> "none"]

\* plugin names as character sequences
PluginName(p) == IF p = 1 THEN <<"a">> ELSE <<"a", ":", "b">>

InitHandler ==
  /\ state = "Loading"
  /\ sandbox = [holder |-> 0, poisoned |-> FALSE]
  /\ scheduler = FALSE
  /\ event_router = FALSE
  /\ timers = [n \in TimerNames |-> NoTimer]
  /\ patterns = {}
  /\ scheduler_requests = <<>>
  /\ subscription_requests = <<>>
  /\ calls = [c \in Callers |-> NoCall]
  /\ tasks = [t \in TaskIds |-> NoTask]
  /\ shutdown_invoked = FALSE
  /\ last_return = [op |-> "none", ret |-> "none"]

\* no registry holds the handler
NoRegistry ==
  /\ plugins = <<>>
  /\ plugins_lock = [writer |-> 0, readers |-> {}]
  /\ handlers = <<>>
  /\ manifests = <<>>
  /\ registry_calls = <<>>

\* no pure function is under evaluation
NoResult == [done |-> FALSE, value |-> FALSE]

NoPure == fn_args = <<>> /\ fn_result = NoResult

Init ==
  /\ InitHandler
  /\ NoRegistry
  /\ NoPure
  /\ ctx = [p \in Plugins |-> HostContext(PluginName(p), <<>>, PermissionsAll)]
  /\ kv_calls = <<>>
  /\ host_ret = NoHostRet

Next ==
  \/ \E c \in Callers : call_init_begin(c)
  \/ \E c \in Callers : call_init_finish(c)
  \/ \E c \in Callers : call_shutdown_begin(c)
  \/ \E c \in Callers : call_shutdown_cancel_all(c)
  \/ \E c \in Callers : call_shutdown_unsubscribe_all(c)
  \/ \E c \in Callers : call_shutdown_finish(c)
  \/ \E c \in Callers : call_health_begin(c)
  \/ \E c \in Callers : call_health_finish(c)
  \/ \E c \in Callers : handle_begin(c)
  \/ \E c \in Callers : handle_finish(c)
  \/ \E c \in Callers : process_scheduler_commands(c)
  \/ \E c \in Callers : process_subscription_commands(c)
  \/ \E c \in Callers, topic \in Topics : deliver_begin(c, topic)
  \/ \E c \in Callers : deliver_finish(c)
  \/ \E name \in TimerNames : timer_fire(name)
  \/ \E name \in TimerNames : timer_await(name)
  \/ \E t \in TaskIds : blocking_lock(t)
  \/ \E t \in TaskIds, out \in {"ok", "not_ok", "garbage", "fault", "panic"} : blocking_finish(t, out)
  \/ \E t \in TaskIds, config \in TimerConfigs : host_schedule_timer(t, config)
  \/ \E t \in TaskIds, name \in TimerNames : host_cancel_timer(t, name)
  \/ \E t \in TaskIds, input \in PatternInputs : host_hook_subscribe(t, input)
  \/ \E t \in TaskIds, pattern \in Patterns : host_hook_unsubscribe(t, pattern)

Spec == Init /\ [][Next]_vars

\* FairSpec: the runtime keeps polling the future of call_shutdown, and the
\* timer of its tokio::time::timeout fires; nothing is assumed of the guest
FairSpec ==
  /\ Spec
  /\ \A c \in Callers :
       /\ WF_vars(call_shutdown_cancel_all(c))
       /\ WF_vars(call_shutdown_unsubscribe_all(c))
       /\ WF_vars(call_shutdown_finish(c))

(***************************************************************************)
(* host.rs: the key-value host functions.  A function returns the tagged   *)
(* result handed to the guest and the requests it sent to the store, in    *)
(* order.  What the store answers is an input.                             *)
(***************************************************************************)
\* number of operations in a kv_batch input
MaxBatch == 2

\* validate_key_prefix: Ok iff no prefix is configured or one is a prefix of key
validate_key_prefix(allowed_prefixes, key) ==
  \/ allowed_prefixes = <<>>
  \/ \E i \in DOMAIN allowed_prefixes : starts_with(key, allowed_prefixes[i])

\* a validate_scan_prefix that also accepts a scan prefix some allowed prefix
\* starts with
validate_scan_prefix_either_way(allowed_prefixes, prefix) ==
  \/ allowed_prefixes = <<>>
  \/ \E i \in DOMAIN allowed_prefixes :
       starts_with(prefix, allowed_prefixes[i]) \/ starts_with(allowed_prefixes[i], prefix)

\* validate_scan_prefix: Ok iff no prefix is configured or one is a prefix of prefix
validate_scan_prefix(allowed_prefixes, prefix) ==
  \/ allowed_prefixes = <<>>
  \/ \E i \in DOMAIN allowed_prefixes : starts_with(prefix, allowed_prefixes[i])

Denied == [tag |-> 1, reason |-> "permission_denied"]
Outside == [tag |-> 1, reason |-> "namespace_violation"]
HostErr(reason) == [tag |-> 1, reason |-> reason]
HostOk == [tag |-> 0, reason |-> "ok"]
Rejected(ret) == [ret |-> ret, calls |-> <<>>]
StoreReq(req, cmd, keys) == [req |-> req, cmd |-> cmd, keys |-> keys]

kv_put(c, key, utf8, store_ok) ==
  IF ~check_permission(c.permissions.kv_write) THEN Rejected(Denied)
  ELSE IF ~validate_key_prefix(c.allowed_kv_prefixes, key) THEN Rejected(Outside)
  ELSE IF ~utf8 THEN Rejected(HostErr("not_utf8"))
  ELSE [ret |-> IF store_ok THEN HostOk ELSE HostErr("store_failed"),
        calls |-> << StoreReq("write", "Set", <<key>>) >>]

kv_delete(c, key, store_ok) ==
  IF ~check_permission(c.permissions.kv_write) THEN Rejected(Denied)
  ELSE IF ~validate_key_prefix(c.allowed_kv_prefixes, key) THEN Rejected(Outside)
  ELSE [ret |-> IF store_ok THEN HostOk ELSE HostErr("store_failed"),
        calls |-> << StoreReq("delete", "Delete", <<key>>) >>]

kv_cas(c, key, utf8, store_ok) ==
  IF ~check_permission(c.permissions.kv_write) THEN Rejected(Denied)
  ELSE IF ~validate_key_prefix(c.allowed_kv_prefixes, key) THEN Rejected(Outside)
  ELSE IF ~utf8 THEN Rejected(HostErr("not_utf8"))
  ELSE [ret |-> IF store_ok THEN HostOk ELSE HostErr("store_failed"),
        calls |-> << StoreReq("write", "CompareAndSwap", <<key>>) >>]

\* the store requests of the first n operations of a batch
RECURSIVE batch_requests(_, _)
batch_requests(ops, n) ==
  IF n = 0 THEN <<>>
  ELSE Append(batch_requests(ops, n - 1),
              IF ops[n].type = "Set" THEN StoreReq("write", "Set", <<ops[n].key>>)
                                     ELSE StoreReq("delete", "Delete", <<ops[n].key>>))

\* a kv_batch that validates each key only when it reaches its operation
kv_batch_validates_as_it_goes(c, input, fail_at) ==
  IF ~check_permission(c.permissions.kv_write) THEN Rejected(Denied)
  ELSE IF ~input.json_ok THEN Rejected(HostErr("invalid_json"))
  ELSE IF input.ops = <<>> THEN Rejected(HostOk)
  ELSE LET bad == {i \in DOMAIN input.ops :
                     ~validate_key_prefix(c.allowed_kv_prefixes, input.ops[i].key)}
           stop == IF bad = {} THEN Len(input.ops) + 1
                   ELSE CHOOSE i \in bad : \A j \in bad : i <= j
       IN IF fail_at \in 1..(stop - 1)
            THEN [ret |-> HostErr("store_failed"), calls |-> batch_requests(input.ops, fail_at)]
          ELSE IF bad # {}
            THEN [ret |-> Outside, calls |-> batch_requests(input.ops, stop - 1)]
          ELSE [ret |-> HostOk, calls |-> batch_requests(input.ops, Len(input.ops))]

\* kv_batch: fail_at is the operation at which the store fails (0: none)
kv_batch(c, input, fail_at) ==
  IF ~check_permission(c.permissions.kv_write) THEN Rejected(Denied)
  ELSE IF ~input.json_ok THEN Rejected(HostErr("invalid_json"))
  ELSE IF input.ops = <<>> THEN Rejected(HostOk)
  ELSE IF \E i \in DOMAIN input.ops : ~validate_key_prefix(c.allowed_kv_prefixes, input.ops[i].key)
    THEN Rejected(Outside)
  ELSE IF fail_at \in DOMAIN input.ops
    THEN [ret |-> HostErr("store_failed"), calls |-> batch_requests(input.ops, fail_at)]
  ELSE [ret |-> HostOk, calls |-> batch_requests(input.ops, Len(input.ops))]

\* a kv_get that reports a denial with the error tag of the string results
kv_get_denial_tag_one(c, key, reply) ==
  IF ~check_permission(c.permissions.kv_read)
    THEN Rejected([tag |-> 1, reason |-> "permission_denied"])
  ELSE IF ~validate_key_prefix(c.allowed_kv_prefixes, key)
    THEN Rejected([tag |-> 1, reason |-> "namespace_violation"])
  ELSE [ret |-> CASE reply = "found" -> [tag |-> 0, reason |-> "ok"]
                  [] reply = "not_found" -> [tag |-> 1, reason |-> "not_found"]
                  [] OTHER -> [tag |-> 2, reason |-> "store_failed"],
        calls |-> << StoreReq("read", "Read", <<key>>) >>]

\* blob_get as registered: tag 0 found, 1 not found, 2 error; the blob store
\* is asked only for a hash that parses
blob_get(c, hash_ok, reply) ==
  IF ~check_permission(c.permissions.blob_read)
    THEN Rejected([tag |-> 2, reason |-> "permission_denied"])
  ELSE IF ~hash_ok THEN Rejected([tag |-> 2, reason |-> "invalid_hash"])
  ELSE Rejected(CASE reply = "found" -> [tag |-> 0, reason |-> "ok"]
                  [] reply = "not_found" -> [tag |-> 1, reason |-> "not_found"]
                  [] OTHER -> [tag |-> 2, reason |-> "store_failed"])

\* kv_get as registered: tag 0 found, 1 not found, 2 error
kv_get(c, key, reply) ==
  IF ~check_permission(c.permissions.kv_read)
    THEN Rejected([tag |-> 2, reason |-> "permission_denied"])
  ELSE IF ~validate_key_prefix(c.allowed_kv_prefixes, key)
    THEN Rejected([tag |-> 2, reason |-> "namespace_violation"])
  ELSE [ret |-> CASE reply = "found" -> [tag |-> 0, reason |-> "ok"]
                  [] reply = "not_found" -> [tag |-> 1, reason |-> "not_found"]
                  [] OTHER -> [tag |-> 2, reason |-> "store_failed"],
        calls |-> << StoreReq("read", "Read", <<key>>) >>]

\* kv_scan as registered
kv_scan(c, prefix, store_ok) ==
  IF ~check_permission(c.permissions.kv_read) THEN Rejected(Denied)
  ELSE IF ~validate_scan_prefix(c.allowed_kv_prefixes, prefix) THEN Rejected(Outside)
  ELSE [ret |-> IF store_ok THEN HostOk ELSE HostErr("store_failed"),
        calls |-> << StoreReq("scan", "Scan", <<prefix>>) >>]

\* one store read per key of a batch_read
RECURSIVE batch_reads(_, _)
batch_reads(keys, n) ==
  IF n = 0 THEN <<>>
  ELSE Append(batch_reads(keys, n - 1), StoreReq("read", "Read", <<keys[n]>>))

\* kv_execute_impl: request is the parsed JSON; a store failure is reported
\* inside the JSON result, under the success tag
kv_execute_impl(c, request) ==
  IF ~request.json_ok THEN Rejected(HostErr("invalid_json"))
  ELSE IF request.op \notin {"read", "write", "delete", "scan", "batch_read", "batch_write",
                              "cas", "cad", "conditional_batch"}
    THEN Rejected(HostErr("unknown_op"))
  ELSE IF ~request.fields_ok THEN Rejected(HostErr("missing_field"))
  ELSE [ret |-> HostOk,
        calls |->
          CASE request.op = "read" -> << StoreReq("read", "Read", request.keys) >>
            [] request.op = "write" -> << StoreReq("write", "Set", request.keys) >>
            [] request.op = "delete" -> << StoreReq("write", "Delete", request.keys) >>
            [] request.op = "scan" -> << StoreReq("scan", "Scan", request.keys) >>
            [] request.op = "batch_read" -> batch_reads(request.keys, Len(request.keys))
            [] request.op = "batch_write" -> << StoreReq("write", "Batch", request.keys) >>
            [] request.op = "cas" -> << StoreReq("write", "CompareAndSwap", request.keys) >>
            [] request.op = "cad" -> << StoreReq("write", "CompareAndDelete", request.keys) >>
            [] OTHER -> << StoreReq("write", "ConditionalBatch", request.keys) >>]

\* kv_execute as registered
kv_execute(c, request) ==
  IF ~check_permission(c.permissions.kv_read \/ c.permissions.kv_write) THEN Rejected(Denied)
  ELSE kv_execute_impl(c, request)

(***************************************************************************)
(* SpecHost: the guests of two plugins call the key-value host functions.  *)
(* Each plugin's context is built from its manifest: name, kv_prefixes and *)
(* permissions.                                                            *)
(***************************************************************************)
PluginNames == {<<"a">>, <<"b">>, <<"a", ":", "b">>}

\* kv_prefixes of a manifest: none, or one explicit prefix
ManifestPrefixes == {<<>>, << <<"s", ":">> >>}

\* kv_read and kv_write as the manifest grants them
ManifestPermissions ==
  {[PermissionsDefault EXCEPT !.kv_read = r, !.kv_write = w] : r \in BOOLEAN, w \in BOOLEAN}

HostKeys ==
  {DEFAULT_PLUGIN_KV_PREFIX_TEMPLATE \o n \o <<":", "k">> : n \in PluginNames}
    \cup {<<"s", ":", "k">>, <<"k">>}

ScanPrefixes ==
  {DEFAULT_PLUGIN_KV_PREFIX_TEMPLATE \o n \o <<":">> : n \in PluginNames}
    \cup {DEFAULT_PLUGIN_KV_PREFIX_TEMPLATE, <<"s", ":">>, <<>>}

\* keys of batch operations: one under the default prefix of "a", one under none
BatchKeys == {DEFAULT_PLUGIN_KV_PREFIX_TEMPLATE \o <<"a", ":", "k">>, <<"k">>}

BatchInputs ==
  [json_ok : {TRUE},
   ops : UNION {[1..n -> [type : {"Set", "Delete"}, key : BatchKeys]] : n \in 0..MaxBatch}]
    \cup {[json_ok |-> FALSE, ops |-> <<>>]}

ExecRequests ==
  [json_ok : {TRUE},
   op : {"read", "write", "delete", "scan", "batch_read", "batch_write", "cas", "cad",
         "conditional_batch", "unknown"},
   keys : {<<k>> : k \in HostKeys},
   fields_ok : BOOLEAN]
    \cup {[json_ok |-> FALSE, op |-> "none", keys |-> <<>>, fields_ok |-> FALSE]}

\* the guest of plugin p called host function fn and got r
HostCall(p, fn, op, r) ==
  /\ host_ret' = [plugin |-> p, fn |-> fn, op |-> op, tag |-> r.ret.tag, reason |-> r.ret.reason]
  /\ kv_calls' = r.calls
  /\ UNCHANGED <<ctx, handler_vars, registry_vars, pure_vars>>

host_kv_get(p, key, reply) == HostCall(p, "kv_get", "none", kv_get(ctx[p], key, reply))

host_kv_put(p, key, utf8, store_ok) ==
  HostCall(p, "kv_put", "none", kv_put(ctx[p], key, utf8, store_ok))

host_kv_delete(p, key, store_ok) ==
  HostCall(p, "kv_delete", "none", kv_delete(ctx[p], key, store_ok))

host_kv_cas(p, key, utf8, store_ok) ==
  HostCall(p, "kv_cas", "none", kv_cas(ctx[p], key, utf8, store_ok))

host_kv_scan(p, prefix, store_ok) ==
  HostCall(p, "kv_scan", "none", kv_scan(ctx[p], prefix, store_ok))

host_kv_batch(p, input, fail_at) ==
  HostCall(p, "kv_batch", "none", kv_batch(ctx[p], input, fail_at))

host_kv_execute(p, request) ==
  HostCall(p, "kv_execute", request.op, kv_execute(ctx[p], request))

InitHost ==
  /\ InitHandler
  /\ NoRegistry
  /\ NoPure
  /\ \E n1 \in PluginNames, n2 \in PluginNames \ {<<"a">>}, x \in ManifestPrefixes,
        m1 \in ManifestPermissions, m2 \in ManifestPermissions :
       /\ n1 # n2
       /\ ctx = [p \in Plugins |-> IF p = 1 THEN HostContext(n1, x, m1)
                                            ELSE HostContext(n2, <<>>, m2)]
  /\ kv_calls = <<>>
  /\ host_ret = NoHostRet

NextHost ==
  \/ \E p \in Plugins, key \in HostKeys, reply \in {"found", "not_found", "error"} :
       host_kv_get(p, key, reply)
  \/ \E p \in Plugins, key \in HostKeys, utf8 \in BOOLEAN, store_ok \in BOOLEAN :
       host_kv_put(p, key, utf8, store_ok)
  \/ \E p \in Plugins, key \in HostKeys, store_ok \in BOOLEAN : host_kv_delete(p, key, store_ok)
  \/ \E p \in Plugins, key \in HostKeys, utf8 \in BOOLEAN, store_ok \in BOOLEAN :
       host_kv_cas(p, key, utf8, store_ok)
  \/ \E p \in Plugins, prefix \in ScanPrefixes, store_ok \in BOOLEAN :
       host_kv_scan(p, prefix, store_ok)
  \/ \E p \in Plugins, input \in BatchInputs, fail_at \in 0..MaxBatch :
       host_kv_batch(p, input, fail_at)
  \/ \E p \in Plugins, request \in ExecRequests : host_kv_execute(p, request)

SpecHost == InitHost /\ [][NextHost]_vars

(***************************************************************************)
(* SpecScheduler: one PluginScheduler (scheduler.rs) driven through        *)
(* schedule, cancel and cancel_all with more timer names than the limit,   *)
(* together with its timer tasks and their closures on the sandbox.        *)
(***************************************************************************)
\* number of distinct timer names the scheduler is called with
MaxSchedulerNames == 3

SchedulerNames == 1..MaxSchedulerNames

scheduler_schedule(config) ==
  /\ LET r == schedule(timers, tasks, config)
     IN /\ timers' = r.timers
        /\ tasks' = r.tasks
        /\ last_return' = [op |-> "schedule", ret |-> IF r.ok THEN "Ok" ELSE "Err"]
  /\ UNCHANGED <<state, sandbox, scheduler, event_router, patterns, scheduler_requests,
                 subscription_requests, calls, shutdown_invoked, host_vars, registry_vars, pure_vars>>

scheduler_cancel(name) ==
  /\ LET r == cancel(timers, tasks, name)
     IN /\ timers' = r.timers
        /\ tasks' = r.tasks
        /\ last_return' = [op |-> "cancel", ret |-> IF r.ok THEN "true" ELSE "false"]
  /\ UNCHANGED <<state, sandbox, scheduler, event_router, patterns, scheduler_requests,
                 subscription_requests, calls, shutdown_invoked, host_vars, registry_vars, pure_vars>>

scheduler_cancel_all ==
  /\ LET r == cancel_all(timers, tasks)
     IN /\ timers' = r.timers
        /\ tasks' = r.tasks
  /\ last_return' = [op |-> "cancel_all", ret |-> "none"]
  /\ UNCHANGED <<state, sandbox, scheduler, event_router, patterns, scheduler_requests,
                 subscription_requests, calls, shutdown_invoked, host_vars, registry_vars, pure_vars>>

\* PluginScheduler::new: no timer
InitScheduler ==
  /\ state = "Ready"
  /\ sandbox = [holder |-> 0, poisoned |-> FALSE]
  /\ scheduler = TRUE
  /\ event_router = FALSE
  /\ timers = [n \in SchedulerNames |-> NoTimer]
  /\ patterns = {}
  /\ scheduler_requests = <<>>
  /\ subscription_requests = <<>>
  /\ calls = [c \in Callers |-> NoCall]
  /\ tasks = [t \in TaskIds |-> NoTask]
  /\ shutdown_invoked = FALSE
  /\ last_return = [op |-> "none", ret |-> "none"]
  /\ ctx = [p \in Plugins |-> HostContext(PluginName(p), <<>>, PermissionsAll)]
  /\ kv_calls = <<>>
  /\ host_ret = NoHostRet
  /\ NoRegistry
  /\ NoPure

NextScheduler ==
  \/ \E name \in SchedulerNames, repeating \in BOOLEAN :
       scheduler_schedule([name |-> name, repeating |-> repeating])
  \/ \E name \in SchedulerNames : scheduler_cancel(name)
  \/ scheduler_cancel_all
  \/ \E name \in SchedulerNames : timer_fire(name)
  \/ \E name \in SchedulerNames : timer_await(name)
  \/ \E t \in TimerTaskIds : blocking_lock(t)
  \/ \E t \in TimerTaskIds, out \in {"ok", "fault", "panic"} : blocking_finish(t, out)

SpecScheduler == InitScheduler /\ [][NextScheduler]_vars

(***************************************************************************)
(* SpecRouter: one PluginEventRouter (events.rs) driven through subscribe, *)
(* unsubscribe, unsubscribe_all and deliver with more patterns than the    *)
(* limit, together with the closures deliver spawns on the sandbox.        *)
(***************************************************************************)
\* the patterns the router is called with and the topics delivered, as the
\* segment lists split('.') produces
RouterPatterns == {<<"hooks", ">">>, <<"hooks", "*">>, <<">">>, <<"jobs">>}
RouterTopics == {<<"hooks", "kv">>, <<"jobs">>, <<"hooks">>}

\* before is history: the size of the set when the call was made
router_subscribe(pattern) ==
  /\ LET r == subscribe(patterns, pattern)
     IN /\ patterns' = r.patterns
        /\ last_return' = [op |-> "subscribe", ret |-> IF r.ok THEN "Ok" ELSE "Err",
                           before |-> Cardinality(patterns)]
  /\ UNCHANGED <<state, sandbox, scheduler, event_router, timers, scheduler_requests,
                 subscription_requests, calls, tasks, shutdown_invoked,
                 host_vars, registry_vars, pure_vars>>

router_unsubscribe(pattern) ==
  /\ patterns' = unsubscribe(patterns, pattern)
  /\ last_return' = [op |-> "unsubscribe",
                     ret |-> IF pattern \in patterns THEN "true" ELSE "false",
                     before |-> Cardinality(patterns)]
  /\ UNCHANGED <<state, sandbox, scheduler, event_router, timers, scheduler_requests,
                 subscription_requests, calls, tasks, shutdown_invoked,
                 host_vars, registry_vars, pure_vars>>

router_unsubscribe_all ==
  /\ patterns' = unsubscribe_all(patterns)
  /\ last_return' = [op |-> "unsubscribe_all", ret |-> "none", before |-> Cardinality(patterns)]
  /\ UNCHANGED <<state, sandbox, scheduler, event_router, timers, scheduler_requests,
                 subscription_requests, calls, tasks, shutdown_invoked,
                 host_vars, registry_vars, pure_vars>>

\* PluginEventRouter::new: no subscription
InitRouter ==
  /\ state = "Ready"
  /\ sandbox = [holder |-> 0, poisoned |-> FALSE]
  /\ scheduler = FALSE
  /\ event_router = TRUE
  /\ timers = [n \in TimerNames |-> NoTimer]
  /\ patterns = {}
  /\ scheduler_requests = <<>>
  /\ subscription_requests = <<>>
  /\ calls = [c \in Callers |-> NoCall]
  /\ tasks = [t \in TaskIds |-> NoTask]
  /\ shutdown_invoked = FALSE
  /\ last_return = [op |-> "none", ret |-> "none"]
  /\ ctx = [p \in Plugins |-> HostContext(PluginName(p), <<>>, PermissionsAll)]
  /\ kv_calls = <<>>
  /\ host_ret = NoHostRet
  /\ NoRegistry
  /\ NoPure

NextRouter ==
  \/ \E pattern \in RouterPatterns : router_subscribe(pattern)
  \/ \E pattern \in RouterPatterns : router_unsubscribe(pattern)
  \/ router_unsubscribe_all
  \/ \E c \in Callers, topic \in RouterTopics : deliver_begin(c, topic)
  \/ \E c \in Callers : deliver_finish(c)
  \/ \E t \in Callers : blocking_lock(t)
  \/ \E t \in Callers, out \in {"ok", "fault", "panic"} : blocking_finish(t, out)

SpecRouter == InitRouter /\ [][NextRouter]_vars

(***************************************************************************)
(* SpecMatch: pattern_matches (events.rs) applied to every pattern and     *)
(* topic string up to a length.                                            *)
(***************************************************************************)
\* lengths of the pattern and topic strings, in characters
MaxPatternLen == 3
MaxTopicLen == 5

PatternChars == {"a", "b", ".", "*", ">"}
TopicChars == {"a", "b", "."}

StringsUpTo(chars, n) == UNION {[1..k -> chars] : k \in 0..n}

\* the grammar of the patterns (doc of pattern_matches): tokens before the
\* first `>` each take one segment, `*` any and a literal its equal; without
\* `>` nothing may follow, from `>` on anything may
GrammarMatches(pattern_parts, topic_parts) ==
  LET gts == {i \in DOMAIN pattern_parts : pattern_parts[i] = ">"}
      n == IF gts = {} THEN Len(pattern_parts)
           ELSE (CHOOSE i \in gts : \A j \in gts : i <= j) - 1
  IN /\ IF gts = {} THEN Len(topic_parts) = n ELSE Len(topic_parts) >= n
     /\ \A i \in 1..n : pattern_parts[i] = "*" \/ pattern_parts[i] = topic_parts[i]

\* pattern_matches(pattern, topic) on the strings
pattern_matches_call ==
  /\ ~fn_result.done
  /\ fn_result' = [done |-> TRUE,
                   value |-> pattern_matches(split(fn_args.pattern), split(fn_args.topic))]
  /\ UNCHANGED <<fn_args, handler_vars, host_vars, registry_vars>>

InitMatch ==
  /\ InitHandler
  /\ ctx = [p \in Plugins |-> HostContext(PluginName(p), <<>>, PermissionsAll)]
  /\ kv_calls = <<>>
  /\ host_ret = NoHostRet
  /\ NoRegistry
  /\ fn_args \in [pattern : StringsUpTo(PatternChars, MaxPatternLen),
                  topic : StringsUpTo(TopicChars, MaxTopicLen)]
  /\ fn_result = NoResult

NextMatch == pattern_matches_call

SpecMatch == InitMatch /\ [][NextMatch]_vars

(***************************************************************************)
(* SpecRegistry: one LivePluginRegistry (registry.rs) over a manifest      *)
(* store that changes under it, with concurrent callers of load_all,       *)
(* reload_all, reload_one, shutdown_all and of the observers len,          *)
(* handler_snapshot and health_one.  A handler is seen through the results *)
(* of its lifecycle calls (handler.rs); what the blob store and the guest  *)
(* answer is an input of the step that asks.                               *)
(***************************************************************************)
\* number of calls made on the registry (each caller makes one call)
MaxRegistryCalls == 2
\* number of handlers that load and initialize successfully
MaxHandlers == 3
\* number of plugin names with a manifest key
MaxPluginNames == 3

RegistryCallers == 1..MaxRegistryCalls
HandlerIds == 1..MaxHandlers
RegistryNames == 1..MaxPluginNames

\* aspen_constants::plugin::MAX_PLUGINS, scaled below the number of names
MAX_PLUGINS == 2

\* the key PLUGIN_KV_PREFIX + name holds a value or not
ManifestValues == {"absent", "present"}

\* what the value turns out to be when load_plugin reads it: JSON that does
\* not parse, a manifest with enabled = false, one with enabled = true
ManifestContents == {"unparseable", "disabled", "enabled"}

\* what loading an enabled manifest meets first: nothing, a wasm_hash that
\* does not parse, a blob that cannot be fetched, bytes over
\* MAX_WASM_COMPONENT_SIZE, a sandbox or module that does not load, a guest
\* whose plugin_info names another plugin
LoadOutcomes == {"ok", "bad_hash", "unfetchable", "oversized", "load_failed", "mismatched"}

\* how the closure of a lifecycle call ends for the awaiting handler (a guest
\* that reports failure or panics is seen as a fault)
CallOutcomes == {"ok", "garbage", "fault", "timeout"}

NoHandler == [name |-> 0, state |-> "none"]

NoRegistryCall ==
  [op |-> "none", pc |-> "idle", name |-> 0, manifest |-> "absent", todo |-> <<>>,
   new_plugins |-> [n \in RegistryNames |-> 0], result |-> {}, drained |-> {},
   warned |-> {}, old |-> 0, fresh |-> 0]

FreeHandlers == {h \in HandlerIds : handlers[h] = NoHandler}

RegistryNextCaller(c) ==
  /\ registry_calls[c].pc = "idle"
  /\ \A d \in RegistryCallers : d < c => registry_calls[d].pc # "idle"

\* plugins.write().await / plugins.read().await can complete
write_available == plugins_lock.writer = 0 /\ plugins_lock.readers = {}
read_available == plugins_lock.writer = 0

\* the inputs of a load_plugin followed by call_init: what does not come
\* into play is fixed
LoadInputs ==
  {i \in [content : ManifestContents, env : LoadOutcomes, out : CallOutcomes] :
     /\ i.content # "enabled" => i.env = "ok"
     /\ i.env # "ok" => i.out = "ok"}

\* load_plugin: "err" for Err, "none" for Ok(None), "loaded" for Ok(Some(..))
load_plugin(content, env) ==
  IF content = "unparseable" THEN "err"
  ELSE IF content = "disabled" THEN "none"
  ELSE IF env # "ok" THEN "err"
  ELSE "loaded"

\* WasmPluginHandler::call_init on a fresh handler: its result and the state
\* it leaves
call_init_result(out) ==
  IF out = "ok" THEN [ret |-> "Ok", state |-> "Ready"]
  ELSE IF out = "garbage" THEN [ret |-> "Err", state |-> "Initializing"]
  ELSE [ret |-> "Err", state |-> "Failed"]

\* a call_shutdown that leaves the handler Stopping when the guest fails
call_shutdown_result_err_unstopped(out) ==
  IF out \in {"ok", "timeout"} THEN [ret |-> "Ok", state |-> "Stopped"]
  ELSE [ret |-> "Err", state |-> "Stopping"]

\* WasmPluginHandler::call_shutdown: its result and the state it leaves
call_shutdown_result(out) ==
  [ret |-> IF out \in {"ok", "timeout"} THEN "Ok" ELSE "Err", state |-> "Stopped"]

\* WasmPluginHandler::call_health
call_health_result(out, s) ==
  IF out = "ok" THEN [ret |-> "healthy", state |-> s]
  ELSE [ret |-> "degraded", state |-> "Degraded"]

\* the manifest entries a scan of PLUGIN_KV_PREFIX returns, in key order
RECURSIVE scan_entries(_, _)
scan_entries(kv, n) ==
  IF n > MaxPluginNames THEN <<>>
  ELSE IF kv[n] = "absent" THEN scan_entries(kv, n + 1)
  ELSE <<[name |-> n]>> \o scan_entries(kv, n + 1)

\* ScanRequest.limit_results: at most n entries of the scan are returned
limit_results(entries, n) == IF Len(entries) <= n THEN entries ELSE SubSeq(entries, 1, n)

\* the handlers of a map, in the order the iteration meets them
RECURSIVE map_values(_, _)
map_values(map, n) ==
  IF n > MaxPluginNames THEN <<>>
  ELSE IF map[n] = 0 THEN map_values(map, n + 1)
  ELSE <<map[n]>> \o map_values(map, n + 1)

Range(seq) == {seq[i] : i \in DOMAIN seq}

\* the caller's operation returns ret, carrying value (handlers, or a count)
RegistryReturn(c, op, ret, value) ==
  /\ registry_calls' = [registry_calls EXCEPT ![c] = [NoRegistryCall EXCEPT !.pc = "returned"]]
  /\ last_return' = [op |-> op, ret |-> ret, value |-> value]

\* someone installs, changes, disables or removes the manifest of name
store_write(name, manifest) ==
  /\ manifests[name] # manifest
  /\ manifests' = [manifests EXCEPT ![name] = manifest]
  /\ UNCHANGED <<plugins, plugins_lock, handlers, registry_calls, state, sandbox, scheduler,
                 event_router, timers, patterns, scheduler_requests, subscription_requests,
                 calls, tasks, shutdown_invoked, last_return, host_vars, pure_vars>>

\* load_all up to the loop: the scan of the manifests (as the whole of
\* load_all, or as the second half of reload_all)
load_all_scan(c, scan_ok) ==
  /\ \/ RegistryNextCaller(c)
     \/ registry_calls[c].op = "reload_all" /\ registry_calls[c].pc = "scan"
  /\ LET op == IF registry_calls[c].pc = "idle" THEN "load_all" ELSE "reload_all"
         entries == limit_results(scan_entries(manifests, 1), MAX_PLUGINS)
     IN IF ~scan_ok THEN RegistryReturn(c, op, "Err", {})
        ELSE IF entries = <<>> THEN RegistryReturn(c, op, "Ok", {})
        ELSE /\ registry_calls' = [registry_calls EXCEPT ![c] =
                  [NoRegistryCall EXCEPT !.op = op, !.pc = "load", !.todo = entries,
                                         !.drained = registry_calls[c].drained,
                                         !.warned = registry_calls[c].warned]]
             /\ UNCHANGED last_return
  /\ UNCHANGED <<plugins, plugins_lock, handlers, manifests, state, sandbox, scheduler,
                 event_router, timers, patterns, scheduler_requests, subscription_requests,
                 calls, tasks, shutdown_invoked, host_vars, pure_vars>>

\* one iteration of the loop of load_all: load_plugin, then call_init
load_all_entry(c, input) ==
  /\ registry_calls[c].pc = "load" /\ registry_calls[c].todo # <<>>
  /\ LET entry == Head(registry_calls[c].todo)
         init == call_init_result(input.out)
     IN IF load_plugin(input.content, input.env) = "loaded" /\ init.ret = "Ok"
          THEN /\ FreeHandlers # {}
               /\ LET h == CHOOSE x \in FreeHandlers : \A y \in FreeHandlers : x <= y
                  IN /\ handlers' = [handlers EXCEPT ![h] = [name |-> entry.name, state |-> init.state]]
                     /\ registry_calls' = [registry_calls EXCEPT
                          ![c].todo = Tail(registry_calls[c].todo),
                          ![c].result = registry_calls[c].result \cup {h},
                          ![c].new_plugins = [registry_calls[c].new_plugins EXCEPT ![entry.name] = h]]
          ELSE /\ registry_calls' = [registry_calls EXCEPT ![c].todo = Tail(registry_calls[c].todo)]
               /\ UNCHANGED handlers
  /\ UNCHANGED <<plugins, plugins_lock, manifests, state, sandbox, scheduler,
                 event_router, timers, patterns, scheduler_requests, subscription_requests,
                 calls, tasks, shutdown_invoked, last_return, host_vars, pure_vars>>

\* load_all after the loop: *plugins = new_plugins under the write lock
load_all_store(c) ==
  /\ registry_calls[c].pc = "load" /\ registry_calls[c].todo = <<>>
  /\ write_available
  /\ plugins' = registry_calls[c].new_plugins
  /\ RegistryReturn(c, registry_calls[c].op, "Ok", registry_calls[c].result)
  /\ UNCHANGED <<plugins_lock, handlers, manifests, state, sandbox, scheduler,
                 event_router, timers, patterns, scheduler_requests, subscription_requests,
                 calls, tasks, shutdown_invoked, host_vars, pure_vars>>

\* shutdown_all (alone, or as the first half of reload_all): the write lock
\* is taken and the map drained
shutdown_all_begin(c, op) ==
  /\ RegistryNextCaller(c)
  /\ write_available
  /\ plugins_lock' = [plugins_lock EXCEPT !.writer = c]
  /\ plugins' = [n \in RegistryNames |-> 0]
  /\ registry_calls' = [registry_calls EXCEPT ![c] =
       [NoRegistryCall EXCEPT !.op = op, !.pc = "drain", !.todo = map_values(plugins, 1),
                              !.drained = Range(map_values(plugins, 1))]]
  /\ UNCHANGED <<handlers, manifests, state, sandbox, scheduler,
                 event_router, timers, patterns, scheduler_requests, subscription_requests,
                 calls, tasks, shutdown_invoked, last_return, host_vars, pure_vars>>

\* one iteration of the loop of shutdown_all: call_shutdown, an error logged
shutdown_all_step(c, out) ==
  /\ registry_calls[c].pc = "drain" /\ registry_calls[c].todo # <<>>
  /\ LET h == Head(registry_calls[c].todo)
         r == call_shutdown_result(out)
     IN /\ handlers' = [handlers EXCEPT ![h].state = r.state]
        /\ registry_calls' = [registry_calls EXCEPT
             ![c].todo = Tail(registry_calls[c].todo),
             ![c].warned = IF r.ret = "Err" THEN registry_calls[c].warned \cup {h}
                                            ELSE registry_calls[c].warned]
  /\ UNCHANGED <<plugins, plugins_lock, manifests, state, sandbox, scheduler,
                 event_router, timers, patterns, scheduler_requests, subscription_requests,
                 calls, tasks, shutdown_invoked, last_return, host_vars, pure_vars>>

\* shutdown_all returns, releasing the write lock; reload_all goes on to load_all
shutdown_all_end(c) ==
  /\ registry_calls[c].pc = "drain" /\ registry_calls[c].todo = <<>>
  /\ plugins_lock' = [plugins_lock EXCEPT !.writer = 0]
  /\ IF registry_calls[c].op = "shutdown_all"
       THEN RegistryReturn(c, "shutdown_all", "none", {})
       ELSE /\ registry_calls' = [registry_calls EXCEPT ![c].pc = "scan"]
            /\ UNCHANGED last_return
  /\ UNCHANGED <<plugins, handlers, manifests, state, sandbox, scheduler,
                 event_router, timers, patterns, scheduler_requests, subscription_requests,
                 calls, tasks, shutdown_invoked, host_vars, pure_vars>>

\* reload_one: the read of the manifest of name
reload_one_read(c, name, read_ok) ==
  /\ RegistryNextCaller(c)
  /\ IF read_ok
       THEN /\ registry_calls' = [registry_calls EXCEPT ![c] =
                 [NoRegistryCall EXCEPT !.op = "reload_one", !.pc = "remove", !.name = name,
                                        !.manifest = manifests[name]]]
            /\ UNCHANGED last_return
       ELSE RegistryReturn(c, "reload_one", "Err", {})
  /\ UNCHANGED <<plugins, plugins_lock, handlers, manifests, state, sandbox, scheduler,
                 event_router, timers, patterns, scheduler_requests, subscription_requests,
                 calls, tasks, shutdown_invoked, host_vars, pure_vars>>

\* reload_one from the point where no old instance is left to shut down
reload_one_removed(c) ==
  IF registry_calls[c].manifest = "absent"
    THEN RegistryReturn(c, "reload_one", "None", {})
    ELSE /\ registry_calls' = [registry_calls EXCEPT ![c].pc = "load",
                                                     ![c].old = plugins[registry_calls[c].name]]
         /\ UNCHANGED last_return

\* reload_one: the old instance is removed under the write lock, which is
\* kept while the old instance shuts down
reload_one_remove(c) ==
  /\ registry_calls[c].op = "reload_one" /\ registry_calls[c].pc = "remove"
  /\ write_available
  /\ plugins' = [plugins EXCEPT ![registry_calls[c].name] = 0]
  /\ IF plugins[registry_calls[c].name] # 0
       THEN /\ plugins_lock' = [plugins_lock EXCEPT !.writer = c]
            /\ registry_calls' = [registry_calls EXCEPT ![c].pc = "shutdown_old",
                                                        ![c].old = plugins[registry_calls[c].name]]
            /\ UNCHANGED last_return
       ELSE /\ reload_one_removed(c)
            /\ UNCHANGED plugins_lock
  /\ UNCHANGED <<handlers, manifests, state, sandbox, scheduler,
                 event_router, timers, patterns, scheduler_requests, subscription_requests,
                 calls, tasks, shutdown_invoked, host_vars, pure_vars>>

\* reload_one: call_shutdown of the old instance has returned
reload_one_shutdown_old(c, out) ==
  /\ registry_calls[c].op = "reload_one" /\ registry_calls[c].pc = "shutdown_old"
  /\ handlers' = [handlers EXCEPT ![registry_calls[c].old].state = call_shutdown_result(out).state]
  /\ plugins_lock' = [plugins_lock EXCEPT !.writer = 0]
  /\ IF registry_calls[c].manifest = "absent"
       THEN RegistryReturn(c, "reload_one", "None", {})
       ELSE /\ registry_calls' = [registry_calls EXCEPT ![c].pc = "load"]
            /\ UNCHANGED last_return
  /\ UNCHANGED <<plugins, manifests, state, sandbox, scheduler,
                 event_router, timers, patterns, scheduler_requests, subscription_requests,
                 calls, tasks, shutdown_invoked, host_vars, pure_vars>>

\* reload_one: load_plugin, then call_init, without the lock
reload_one_load(c, input) ==
  /\ registry_calls[c].op = "reload_one" /\ registry_calls[c].pc = "load"
  /\ LET loaded == load_plugin(input.content, input.env)
         init == call_init_result(input.out)
     IN IF loaded = "none" THEN RegistryReturn(c, "reload_one", "None", {}) /\ UNCHANGED handlers
        ELSE IF loaded = "err" \/ init.ret = "Err"
          THEN RegistryReturn(c, "reload_one", "Err", {}) /\ UNCHANGED handlers
        ELSE /\ FreeHandlers # {}
             /\ LET h == CHOOSE x \in FreeHandlers : \A y \in FreeHandlers : x <= y
                IN /\ handlers' = [handlers EXCEPT ![h] =
                                     [name |-> registry_calls[c].name, state |-> init.state]]
                   /\ registry_calls' = [registry_calls EXCEPT ![c].pc = "insert", ![c].fresh = h]
             /\ UNCHANGED last_return
  /\ UNCHANGED <<plugins, plugins_lock, manifests, state, sandbox, scheduler,
                 event_router, timers, patterns, scheduler_requests, subscription_requests,
                 calls, tasks, shutdown_invoked, host_vars, pure_vars>>

\* reload_one: the fresh instance is inserted under the write lock
reload_one_insert(c) ==
  /\ registry_calls[c].op = "reload_one" /\ registry_calls[c].pc = "insert"
  /\ write_available
  /\ plugins' = [plugins EXCEPT ![registry_calls[c].name] = registry_calls[c].fresh]
  /\ RegistryReturn(c, "reload_one", "Some", {registry_calls[c].fresh})
  /\ UNCHANGED <<plugins_lock, handlers, manifests, state, sandbox, scheduler,
                 event_router, timers, patterns, scheduler_requests, subscription_requests,
                 calls, tasks, shutdown_invoked, host_vars, pure_vars>>

\* len
registry_len(c) ==
  /\ RegistryNextCaller(c)
  /\ read_available
  /\ RegistryReturn(c, "len", "none", Cardinality({n \in RegistryNames : plugins[n] # 0}))
  /\ UNCHANGED <<plugins, plugins_lock, handlers, manifests, state, sandbox, scheduler,
                 event_router, timers, patterns, scheduler_requests, subscription_requests,
                 calls, tasks, shutdown_invoked, host_vars, pure_vars>>

handler_snapshot(c) ==
  /\ RegistryNextCaller(c)
  /\ read_available
  /\ RegistryReturn(c, "handler_snapshot", "none", {plugins[n] : n \in RegistryNames} \ {0})
  /\ UNCHANGED <<plugins, plugins_lock, handlers, manifests, state, sandbox, scheduler,
                 event_router, timers, patterns, scheduler_requests, subscription_requests,
                 calls, tasks, shutdown_invoked, host_vars, pure_vars>>

\* health_one: the read lock is taken and kept while call_health runs
health_one_begin(c, name) ==
  /\ RegistryNextCaller(c)
  /\ read_available
  /\ IF plugins[name] = 0
       THEN /\ RegistryReturn(c, "health_one", "None", {})
            /\ UNCHANGED plugins_lock
       ELSE /\ plugins_lock' = [plugins_lock EXCEPT !.readers = plugins_lock.readers \cup {c}]
            /\ registry_calls' = [registry_calls EXCEPT ![c] =
                 [NoRegistryCall EXCEPT !.op = "health_one", !.pc = "health", !.name = name,
                                        !.old = plugins[name]]]
            /\ UNCHANGED last_return
  /\ UNCHANGED <<plugins, handlers, manifests, state, sandbox, scheduler,
                 event_router, timers, patterns, scheduler_requests, subscription_requests,
                 calls, tasks, shutdown_invoked, host_vars, pure_vars>>

health_one_finish(c, out) ==
  /\ registry_calls[c].op = "health_one" /\ registry_calls[c].pc = "health"
  /\ LET h == registry_calls[c].old
         r == call_health_result(out, handlers[h].state)
     IN /\ handlers' = [handlers EXCEPT ![h].state = r.state]
        /\ RegistryReturn(c, "health_one", r.ret, {})
  /\ plugins_lock' = [plugins_lock EXCEPT !.readers = plugins_lock.readers \ {c}]
  /\ UNCHANGED <<plugins, manifests, state, sandbox, scheduler,
                 event_router, timers, patterns, scheduler_requests, subscription_requests,
                 calls, tasks, shutdown_invoked, host_vars, pure_vars>>

\* health_all: the read lock is taken and kept over the whole loop
health_all_begin(c) ==
  /\ RegistryNextCaller(c)
  /\ read_available
  /\ plugins_lock' = [plugins_lock EXCEPT !.readers = plugins_lock.readers \cup {c}]
  /\ registry_calls' = [registry_calls EXCEPT ![c] =
       [NoRegistryCall EXCEPT !.op = "health_all", !.pc = "next",
                              !.todo = map_values(plugins, 1)]]
  /\ UNCHANGED <<plugins, handlers, manifests, state, sandbox, scheduler,
                 event_router, timers, patterns, scheduler_requests, subscription_requests,
                 calls, tasks, shutdown_invoked, last_return, host_vars, pure_vars>>

\* one iteration of the loop of health_all begins: call_health of the next
\* handler is called and awaited
health_all_call(c) ==
  /\ registry_calls[c].op = "health_all" /\ registry_calls[c].pc = "next"
  /\ registry_calls[c].todo # <<>>
  /\ registry_calls' = [registry_calls EXCEPT ![c].pc = "health",
                                              ![c].old = Head(registry_calls[c].todo),
                                              ![c].todo = Tail(registry_calls[c].todo)]
  /\ UNCHANGED <<plugins, plugins_lock, handlers, manifests, state, sandbox, scheduler,
                 event_router, timers, patterns, scheduler_requests, subscription_requests,
                 calls, tasks, shutdown_invoked, last_return, host_vars, pure_vars>>

\* the awaited call_health returns and its result is pushed
health_all_result(c, out) ==
  /\ registry_calls[c].op = "health_all" /\ registry_calls[c].pc = "health"
  /\ LET h == registry_calls[c].old
         r == call_health_result(out, handlers[h].state)
     IN /\ handlers' = [handlers EXCEPT ![h].state = r.state]
        /\ registry_calls' = [registry_calls EXCEPT
             ![c].pc = "next", ![c].old = 0,
             ![c].result = IF r.ret = "healthy" THEN registry_calls[c].result \cup {h}
                                                ELSE registry_calls[c].result,
             ![c].warned = IF r.ret = "healthy" THEN registry_calls[c].warned
                                                ELSE registry_calls[c].warned \cup {h}]
  /\ UNCHANGED <<plugins, plugins_lock, manifests, state, sandbox, scheduler,
                 event_router, timers, patterns, scheduler_requests, subscription_requests,
                 calls, tasks, shutdown_invoked, last_return, host_vars, pure_vars>>

\* health_all returns the results, releasing the read lock
health_all_end(c) ==
  /\ registry_calls[c].op = "health_all" /\ registry_calls[c].pc = "next"
  /\ registry_calls[c].todo = <<>>
  /\ plugins_lock' = [plugins_lock EXCEPT !.readers = plugins_lock.readers \ {c}]
  /\ RegistryReturn(c, "health_all", "none",
                    [healthy |-> registry_calls[c].result, degraded |-> registry_calls[c].warned])
  /\ UNCHANGED <<plugins, handlers, manifests, state, sandbox, scheduler,
                 event_router, timers, patterns, scheduler_requests, subscription_requests,
                 calls, tasks, shutdown_invoked,  host_vars, pure_vars>>

\* LivePluginRegistry::new, over any manifest store
InitRegistry ==
  /\ InitHandler
  /\ ctx = [p \in Plugins |-> HostContext(PluginName(p), <<>>, PermissionsAll)]
  /\ kv_calls = <<>>
  /\ host_ret = NoHostRet
  /\ NoPure
  /\ plugins = [n \in RegistryNames |-> 0]
  /\ plugins_lock = [writer |-> 0, readers |-> {}]
  /\ handlers = [h \in HandlerIds |-> NoHandler]
  /\ manifests \in [RegistryNames -> ManifestValues]
  /\ registry_calls = [c \in RegistryCallers |-> NoRegistryCall]

NextRegistry ==
  \/ \E name \in RegistryNames, manifest \in ManifestValues : store_write(name, manifest)
  \/ \E c \in RegistryCallers, scan_ok \in BOOLEAN : load_all_scan(c, scan_ok)
  \/ \E c \in RegistryCallers, input \in LoadInputs : load_all_entry(c, input)
  \/ \E c \in RegistryCallers : load_all_store(c)
  \/ \E c \in RegistryCallers, op \in {"shutdown_all", "reload_all"} : shutdown_all_begin(c, op)
  \/ \E c \in RegistryCallers, out \in CallOutcomes : shutdown_all_step(c, out)
  \/ \E c \in RegistryCallers : shutdown_all_end(c)
  \/ \E c \in RegistryCallers, name \in RegistryNames, read_ok \in BOOLEAN :
       reload_one_read(c, name, read_ok)
  \/ \E c \in RegistryCallers : reload_one_remove(c)
  \/ \E c \in RegistryCallers, out \in CallOutcomes : reload_one_shutdown_old(c, out)
  \/ \E c \in RegistryCallers, input \in LoadInputs : reload_one_load(c, input)
  \/ \E c \in RegistryCallers : reload_one_insert(c)
  \/ \E c \in RegistryCallers : registry_len(c)
  \/ \E c \in RegistryCallers : handler_snapshot(c)
  \/ \E c \in RegistryCallers, name \in RegistryNames : health_one_begin(c, name)
  \/ \E c \in RegistryCallers, out \in CallOutcomes : health_one_finish(c, out)
  \/ \E c \in RegistryCallers : health_all_begin(c)
  \/ \E c \in RegistryCallers : health_all_call(c)
  \/ \E c \in RegistryCallers, out \in CallOutcomes : health_all_result(c, out)
  \/ \E c \in RegistryCallers : health_all_end(c)

SpecRegistry == InitRegistry /\ [][NextRegistry]_vars

(***************************************************************************)
(* SpecCanHandle: RequestHandler::can_handle (handler.rs) applied to every *)
(* handles list and request, on a handler in any lifecycle state.          *)
(***************************************************************************)
\* the variants of ClientRpcRequest the requests are drawn from
RequestVariants == {"Ping", "ReadKey", "WriteKey"}

\* requests: a variant and what it carries
Requests == [variant : RequestVariants, payload : {"", "k"}]

\* the names a plugin_info may declare: variant names, one in another case
HandleNames == {"Ping", "ReadKey", "ping"}

\* marshal::extract_variant_name: the serde name of the request's variant
extract_variant_name(request) == request.variant

\* a can_handle that answers only while the handler dispatches
can_handle_when_dispatchable(self, request) ==
  /\ is_dispatchable(self.state)
  /\ \E i \in DOMAIN self.handles : self.handles[i] = extract_variant_name(request)

\* WasmPluginHandler::can_handle
can_handle(self, request) ==
  \E i \in DOMAIN self.handles : self.handles[i] = extract_variant_name(request)

can_handle_call ==
  /\ ~fn_result.done
  /\ fn_result' = [done |-> TRUE,
                   value |-> can_handle([handles |-> fn_args.handles, state |-> state],
                                        fn_args.request)]
  /\ UNCHANGED <<fn_args, handler_vars, host_vars, registry_vars>>

InitCanHandle ==
  /\ state \in PluginState
  /\ sandbox = [holder |-> 0, poisoned |-> FALSE]
  /\ scheduler = FALSE
  /\ event_router = FALSE
  /\ timers = [n \in TimerNames |-> NoTimer]
  /\ patterns = {}
  /\ scheduler_requests = <<>>
  /\ subscription_requests = <<>>
  /\ calls = [c \in Callers |-> NoCall]
  /\ tasks = [t \in TaskIds |-> NoTask]
  /\ shutdown_invoked = FALSE
  /\ last_return = [op |-> "none", ret |-> "none"]
  /\ ctx = [p \in Plugins |-> HostContext(PluginName(p), <<>>, PermissionsAll)]
  /\ kv_calls = <<>>
  /\ host_ret = NoHostRet
  /\ NoRegistry
  /\ fn_args \in [handles : UNION {[1..k -> HandleNames] : k \in 0..2}, request : Requests]
  /\ fn_result = NoResult

NextCanHandle == can_handle_call

SpecCanHandle == InitCanHandle /\ [][NextCanHandle]_vars

(***************************************************************************)
(* SpecBatch: kv_batch (host.rs) applied once to every batch input, under  *)
(* every plugin context of SpecHost.                                       *)
(***************************************************************************)
\* the guest of plugin fn_args.p calls kv_batch
kv_batch_call ==
  /\ ~fn_result.done
  /\ LET r == kv_batch(ctx[fn_args.p], fn_args.input, fn_args.fail_at)
     IN /\ host_ret' = [plugin |-> fn_args.p, fn |-> "kv_batch", op |-> "none",
                        tag |-> r.ret.tag, reason |-> r.ret.reason]
        /\ kv_calls' = r.calls
        /\ fn_result' = [done |-> TRUE, value |-> r.ret.tag = 0]
  /\ UNCHANGED <<ctx, fn_args, handler_vars, registry_vars>>

InitBatch ==
  /\ InitHandler
  /\ NoRegistry
  /\ \E n1 \in PluginNames, n2 \in PluginNames \ {<<"a">>}, x \in ManifestPrefixes,
        m1 \in ManifestPermissions, m2 \in ManifestPermissions :
       /\ n1 # n2
       /\ ctx = [p \in Plugins |-> IF p = 1 THEN HostContext(n1, x, m1)
                                            ELSE HostContext(n2, <<>>, m2)]
  /\ kv_calls = <<>>
  /\ host_ret = NoHostRet
  /\ fn_args \in [p : Plugins, input : BatchInputs, fail_at : 0..MaxBatch]
  /\ fn_result = NoResult

NextBatch == kv_batch_call

SpecBatch == InitBatch /\ [][NextBatch]_vars

(***************************************************************************)
(* SpecPrefix: validate_key_prefix and validate_scan_prefix (host.rs)      *)
(* applied to every list of allowed prefixes and every string up to a      *)
(* length.                                                                 *)
(***************************************************************************)
\* length of keys, scan prefixes and allowed prefixes, in characters
MaxKeyLen == 3
\* number of allowed prefixes
MaxPrefixes == 2

KeyChars == {"f", ":"}
KeyStrings == UNION {[1..k -> KeyChars] : k \in 0..MaxKeyLen}
AllowedLists == UNION {[1..k -> KeyStrings] : k \in 0..MaxPrefixes}

\* p is s cut after some number of characters
IsPrefixOf(p, s) == \E k \in 0..Len(s) : p = [i \in 1..k |-> s[i]]

validate_key_prefix_call ==
  /\ ~fn_result.done
  /\ fn_args.kind = "key"
  /\ fn_result' = [done |-> TRUE, value |-> validate_key_prefix(fn_args.allowed, fn_args.s)]
  /\ UNCHANGED <<fn_args, handler_vars, host_vars, registry_vars>>

validate_scan_prefix_call ==
  /\ ~fn_result.done
  /\ fn_args.kind = "scan"
  /\ fn_result' = [done |-> TRUE, value |-> validate_scan_prefix(fn_args.allowed, fn_args.s)]
  /\ UNCHANGED <<fn_args, handler_vars, host_vars, registry_vars>>

InitPrefix ==
  /\ InitHandler
  /\ ctx = [p \in Plugins |-> HostContext(PluginName(p), <<>>, PermissionsAll)]
  /\ kv_calls = <<>>
  /\ host_ret = NoHostRet
  /\ NoRegistry
  /\ fn_args \in [kind : {"key", "scan"}, allowed : AllowedLists, s : KeyStrings]
  /\ fn_result = NoResult

NextPrefix ==
  \/ validate_key_prefix_call
  \/ validate_scan_prefix_call

SpecPrefix == InitPrefix /\ [][NextPrefix]_vars

(***************************************************************************)
(* SpecResolve: PluginHostContext::with_kv_prefixes (host.rs) applied to   *)
(* the contexts of two plugins given the same manifest prefixes.           *)
(***************************************************************************)
\* length of a plugin name or manifest prefix, in characters
MaxNameLen == 2
\* number of prefixes in a manifest
MaxManifestPrefixes == 2

NameChars == {"a", ":"}
NameStrings == UNION {[1..k -> NameChars] : k \in 0..MaxNameLen}
PrefixLists == UNION {[1..k -> NameStrings] : k \in 0..MaxManifestPrefixes}

\* with_kv_prefixes on the context of plugin name and on that of plugin other
with_kv_prefixes_call ==
  /\ ~fn_result.done
  /\ fn_result' = [done |-> TRUE,
                   value |-> [name |-> with_kv_prefixes(fn_args.name, fn_args.prefixes),
                              other |-> with_kv_prefixes(fn_args.other, fn_args.prefixes)]]
  /\ UNCHANGED <<fn_args, handler_vars, host_vars, registry_vars>>

InitResolve ==
  /\ InitHandler
  /\ ctx = [p \in Plugins |-> HostContext(PluginName(p), <<>>, PermissionsAll)]
  /\ kv_calls = <<>>
  /\ host_ret = NoHostRet
  /\ NoRegistry
  /\ fn_args \in [name : NameStrings, other : NameStrings, prefixes : PrefixLists]
  /\ fn_result = NoResult

NextResolve == with_kv_prefixes_call

SpecResolve == InitResolve /\ [][NextResolve]_vars

(***************************************************************************)
(* SpecOption: the host functions with an optional-value result, kv_get    *)
(* and blob_get (host.rs), applied once under every grant of kv_read and   *)
(* blob_read.                                                              *)
(***************************************************************************)
\* kv_read and blob_read as the manifest grants them
ReadPermissions ==
  {[PermissionsDefault EXCEPT !.kv_read = r, !.blob_read = b] : r \in BOOLEAN, b \in BOOLEAN}

\* what the store answers a read
StoreReplies == {"found", "not_found", "error"}

\* the guest of plugin fn_args.p got r from fn_args.fn
OptionCall(r) ==
  /\ host_ret' = [plugin |-> fn_args.p, fn |-> fn_args.fn, op |-> "none",
                  tag |-> r.ret.tag, reason |-> r.ret.reason]
  /\ kv_calls' = r.calls
  /\ fn_result' = [done |-> TRUE, value |-> r.ret.tag = 0]
  /\ UNCHANGED <<ctx, fn_args, handler_vars, registry_vars>>

kv_get_call ==
  /\ ~fn_result.done
  /\ fn_args.fn = "kv_get"
  /\ OptionCall(kv_get(ctx[fn_args.p], fn_args.key, fn_args.reply))

blob_get_call ==
  /\ ~fn_result.done
  /\ fn_args.fn = "blob_get"
  /\ OptionCall(blob_get(ctx[fn_args.p], fn_args.hash_ok, fn_args.reply))

InitOption ==
  /\ InitHandler
  /\ NoRegistry
  /\ \E n \in PluginNames, x \in ManifestPrefixes, m1 \in ReadPermissions :
       ctx = [p \in Plugins |-> HostContext(n, x, m1)]
  /\ kv_calls = <<>>
  /\ host_ret = NoHostRet
  /\ fn_args \in [fn : {"kv_get", "blob_get"}, p : Plugins, key : HostKeys,
                  hash_ok : BOOLEAN, reply : StoreReplies]
  /\ fn_result = NoResult

NextOption ==
  \/ kv_get_call
  \/ blob_get_call

SpecOption == InitOption /\ [][NextOption]_vars

(***************************************************************************)
(* SpecBase64: base64_encode_bytes followed by base64_decode_bytes         *)
(* (host.rs), on every byte string up to a length.  Bytes are 0..255 and   *)
(* the encoded text is a sequence of characters.                           *)
(***************************************************************************)
\* length of the byte strings
MaxBytes == 4

\* the byte values the strings are made of: all bits clear, low bit, a middle
\* pattern, high bit, all bits set
ByteValues == {0, 1, 77, 128, 255}

\* CHARS: the alphabet, by 6-bit value (first element for value 0)
CHARS ==
  <<
    "A", "B", "C", "D", "E", "F", "G", "H", "I", "J", "K", "L", "M", "N", "O", "P",
    "Q", "R", "S", "T", "U", "V", "W", "X", "Y", "Z", "a", "b", "c", "d", "e", "f",
    "g", "h", "i", "j", "k", "l", "m", "n", "o", "p", "q", "r", "s", "t", "u", "v",
    "w", "x", "y", "z", "0", "1", "2", "3", "4", "5", "6", "7", "8", "9", "+", "/" >>

\* slice::chunks(n): consecutive pieces of n elements, the last one shorter
RECURSIVE chunks(_, _)
chunks(s, n) ==
  IF s = <<>> THEN <<>>
  ELSE IF Len(s) <= n THEN <<s>>
  ELSE <<SubSeq(s, 1, n)>> \o chunks(SubSeq(s, n + 1, Len(s)), n)

\* the four characters base64_encode_bytes pushes for one chunk of 1..3 bytes
encode_chunk(chunk) ==
  LET b0 == chunk[1]
      b1 == IF Len(chunk) > 1 THEN chunk[2] ELSE 0
      b2 == IF Len(chunk) > 2 THEN chunk[3] ELSE 0
      n == b0 * 65536 + b1 * 256 + b2
  IN << CHARS[((n \div 262144) % 64) + 1],
        CHARS[((n \div 4096) % 64) + 1],
        IF Len(chunk) > 1 THEN CHARS[((n \div 64) % 64) + 1] ELSE "=",
        IF Len(chunk) > 2 THEN CHARS[(n % 64) + 1] ELSE "=" >>

RECURSIVE encode_chunks(_)
encode_chunks(cs) ==
  IF cs = <<>> THEN <<>> ELSE encode_chunk(Head(cs)) \o encode_chunks(Tail(cs))

\* base64_encode_bytes
base64_encode_bytes(data) == encode_chunks(chunks(data, 3))

\* DECODE: the 6-bit value of a character, 255 (0xFF) for any other
DECODE(ch) ==
  IF \E i \in DOMAIN CHARS : CHARS[i] = ch
    THEN (CHOOSE i \in DOMAIN CHARS : CHARS[i] = ch) - 1
    ELSE 255

\* str::trim_end_matches(ch)
RECURSIVE trim_end_matches(_, _)
trim_end_matches(s, ch) ==
  IF s # <<>> /\ s[Len(s)] = ch THEN trim_end_matches(SubSeq(s, 1, Len(s) - 1), ch) ELSE s

\* the value n a chunk of 1..4 characters accumulates
RECURSIVE chunk_value(_, _)
chunk_value(chunk, i) ==
  IF i > Len(chunk) THEN 0
  ELSE DECODE(chunk[i]) * (2 ^ (18 - (i - 1) * 6)) + chunk_value(chunk, i + 1)

\* the bytes base64_decode_bytes pushes for one chunk
decode_chunk(chunk) ==
  LET n == chunk_value(chunk, 1)
  IN <<(n \div 65536) % 256>>
       \o (IF Len(chunk) > 2 THEN <<(n \div 256) % 256>> ELSE <<>>)
       \o (IF Len(chunk) > 3 THEN <<n % 256>> ELSE <<>>)

RECURSIVE decode_chunks(_)
decode_chunks(cs) ==
  IF cs = <<>> THEN <<>> ELSE decode_chunk(Head(cs)) \o decode_chunks(Tail(cs))

\* a base64_decode_bytes that leaves the padding in
base64_decode_bytes_untrimmed(input) ==
  IF \E i \in DOMAIN input : DECODE(input[i]) = 255
    THEN [ok |-> FALSE, bytes |-> <<>>]
    ELSE [ok |-> TRUE, bytes |-> decode_chunks(chunks(input, 4))]

\* base64_decode_bytes: Err on the first character outside the alphabet
base64_decode_bytes(input) ==
  LET trimmed == trim_end_matches(input, "=")
  IN IF \E i \in DOMAIN trimmed : DECODE(trimmed[i]) = 255
       THEN [ok |-> FALSE, bytes |-> <<>>]
       ELSE [ok |-> TRUE, bytes |-> decode_chunks(chunks(trimmed, 4))]

\* encode, then decode what was encoded
base64_round_trip ==
  /\ ~fn_result.done
  /\ LET encoded == base64_encode_bytes(fn_args.data)
     IN fn_result' = [done |-> TRUE,
                      value |-> [encoded |-> encoded, decoded |-> base64_decode_bytes(encoded)]]
  /\ UNCHANGED <<fn_args, handler_vars, host_vars, registry_vars>>

InitBase64 ==
  /\ InitHandler
  /\ ctx = [p \in Plugins |-> HostContext(PluginName(p), <<>>, PermissionsAll)]
  /\ kv_calls = <<>>
  /\ host_ret = NoHostRet
  /\ NoRegistry
  /\ fn_args \in [data : UNION {[1..k -> ByteValues] : k \in 0..MaxBytes}]
  /\ fn_result = NoResult

NextBase64 == base64_round_trip

SpecBase64 == InitBase64 /\ [][NextBase64]_vars

(***************************************************************************)
(* SpecCommands: the host functions that enqueue commands (host.rs), called *)
(* by a guest that holds the sandbox, under every grant of timers and      *)
(* hooks, next to a scheduler and a router that hold entries.              *)
(***************************************************************************)
\* commands a queue holds at most
MaxCommands == 2

\* timers and hooks as the manifest grants them
CommandPermissions ==
  {[PermissionsDefault EXCEPT !.timers = t, !.hooks = h] : t \in BOOLEAN, h \in BOOLEAN}

\* the guest got the tagged string ret from host function fn called with input
CommandCall(fn, input, ret) ==
  /\ fn_args' = [fn |-> fn, input |-> input]
  /\ fn_result' = [done |-> TRUE, value |-> ret = "ok"]
  /\ host_ret' = [plugin |-> 1, fn |-> fn, op |-> "none",
                  tag |-> IF ret = "ok" THEN 0 ELSE 1, reason |-> ret]
  /\ UNCHANGED <<state, sandbox, scheduler, event_router, timers, patterns, calls, tasks,
                 shutdown_invoked, last_return, ctx, kv_calls, registry_vars>>

schedule_timer_call(config) ==
  /\ Len(scheduler_requests) < MaxCommands
  /\ LET r == schedule_timer(ctx[1], scheduler_requests, config)
     IN /\ scheduler_requests' = r.reqs
        /\ CommandCall("schedule_timer", config, r.ret)
  /\ UNCHANGED subscription_requests

cancel_timer_call(name) ==
  /\ Len(scheduler_requests) < MaxCommands
  /\ LET r == cancel_timer(ctx[1], scheduler_requests, name)
     IN /\ scheduler_requests' = r.reqs
        /\ CommandCall("cancel_timer", [kind |-> "valid", name |-> name, repeating |-> FALSE], r.ret)
  /\ UNCHANGED subscription_requests

hook_subscribe_call(input) ==
  /\ Len(subscription_requests) < MaxCommands
  /\ LET r == hook_subscribe(ctx[1], subscription_requests, input)
     IN /\ subscription_requests' = r.reqs
        /\ CommandCall("hook_subscribe", input, r.ret)
  /\ UNCHANGED scheduler_requests

hook_unsubscribe_call(pattern) ==
  /\ Len(subscription_requests) < MaxCommands
  /\ LET r == hook_unsubscribe(ctx[1], subscription_requests, pattern)
     IN /\ subscription_requests' = r.reqs
        /\ CommandCall("hook_unsubscribe", [kind |-> "valid", pattern |-> pattern], r.ret)
  /\ UNCHANGED scheduler_requests

\* a Ready plugin whose guest is inside handle_request (closure 1 holds the
\* sandbox), with or without a timer and a subscription
InitCommands ==
  /\ state = "Ready"
  /\ sandbox = [holder |-> 1, poisoned |-> FALSE]
  /\ scheduler = TRUE
  /\ event_router = TRUE
  /\ \E tm \in [TimerNames -> {NoTimer, [repeating |-> TRUE, pc |-> "sleeping", task |-> 0]}] :
       timers = tm
  /\ patterns \in SUBSET Patterns
  /\ scheduler_requests = <<>>
  /\ subscription_requests = <<>>
  /\ calls = [c \in Callers |->
                IF c = 1 THEN [op |-> "handle", pc |-> "await", ret |-> "none", cmds |-> <<>>]
                         ELSE NoCall]
  /\ tasks = [t \in TaskIds |->
                IF t = 1 THEN [SpawnBlocking("handle_request") EXCEPT !.st = "running"]
                         ELSE NoTask]
  /\ shutdown_invoked = FALSE
  /\ last_return = [op |-> "none", ret |-> "none"]
  /\ \E m1 \in CommandPermissions :
       ctx = [p \in Plugins |-> HostContext(PluginName(p), <<>>, m1)]
  /\ kv_calls = <<>>
  /\ host_ret = NoHostRet
  /\ NoRegistry
  /\ NoPure

NextCommands ==
  \/ \E config \in TimerConfigs : schedule_timer_call(config)
  \/ \E name \in TimerNames : cancel_timer_call(name)
  \/ \E input \in PatternInputs : hook_subscribe_call(input)
  \/ \E pattern \in Patterns : hook_unsubscribe_call(pattern)

SpecCommands == InitCommands /\ [][NextCommands]_vars

(***************************************************************************)
(* SpecServing: one initialized handler (Ready, scheduler and router set)  *)
(* serving concurrent handle and call_shutdown calls; the guest works with *)
(* one timer and one pattern next to entries made earlier.  fn_args is     *)
(* history: the commands the host functions accepted, in order.            *)
(***************************************************************************)
\* the timer and the pattern the guest schedules, cancels, subscribes
GuestTimerNames == {MaxSchedulerNames}
GuestPatterns == {<<"jobs">>}

\* the timers and subscriptions made before: none, or as many as the limit
EarlierTimers ==
  {[n \in SchedulerNames |-> NoTimer],
   [n \in SchedulerNames |->
      IF n <= MAX_TIMERS_PER_PLUGIN
        THEN [repeating |-> TRUE, pc |-> "sleeping", task |-> 0]
        ELSE NoTimer]}

EarlierPatterns == {{}, {<<"hooks", ">">>, <<"hooks", "*">>}}

\* the queue after the host function returned r, and the history
guest_call(r, queue) ==
  IF r.ret = "ok"
    THEN [fn_args EXCEPT ![queue] = Append(@, r.reqs[Len(r.reqs)])]
    ELSE fn_args

guest_schedule_timer(t, config) ==
  /\ tasks[t].st = "running"
  /\ Len(scheduler_requests) < MaxQueue
  /\ LET r == schedule_timer(ctx[1], scheduler_requests, config)
     IN /\ scheduler_requests' = r.reqs
        /\ fn_args' = guest_call(r, "sched")
  /\ UNCHANGED <<state, sandbox, scheduler, event_router, timers, patterns,
                 subscription_requests, calls, tasks, shutdown_invoked, last_return,
                 host_vars, registry_vars, fn_result>>

guest_cancel_timer(t, name) ==
  /\ tasks[t].st = "running"
  /\ Len(scheduler_requests) < MaxQueue
  /\ LET r == cancel_timer(ctx[1], scheduler_requests, name)
     IN /\ scheduler_requests' = r.reqs
        /\ fn_args' = guest_call(r, "sched")
  /\ UNCHANGED <<state, sandbox, scheduler, event_router, timers, patterns,
                 subscription_requests, calls, tasks, shutdown_invoked, last_return,
                 host_vars, registry_vars, fn_result>>

guest_hook_subscribe(t, input) ==
  /\ tasks[t].st = "running"
  /\ Len(subscription_requests) < MaxQueue
  /\ LET r == hook_subscribe(ctx[1], subscription_requests, input)
     IN /\ subscription_requests' = r.reqs
        /\ fn_args' = guest_call(r, "sub")
  /\ UNCHANGED <<state, sandbox, scheduler, event_router, timers, patterns,
                 scheduler_requests, calls, tasks, shutdown_invoked, last_return,
                 host_vars, registry_vars, fn_result>>

guest_hook_unsubscribe(t, pattern) ==
  /\ tasks[t].st = "running"
  /\ Len(subscription_requests) < MaxQueue
  /\ LET r == hook_unsubscribe(ctx[1], subscription_requests, pattern)
     IN /\ subscription_requests' = r.reqs
        /\ fn_args' = guest_call(r, "sub")
  /\ UNCHANGED <<state, sandbox, scheduler, event_router, timers, patterns,
                 scheduler_requests, calls, tasks, shutdown_invoked, last_return,
                 host_vars, registry_vars, fn_result>>

\* the handler after a successful call_init
InitServing ==
  /\ state = "Ready"
  /\ sandbox = [holder |-> 0, poisoned |-> FALSE]
  /\ scheduler = TRUE
  /\ event_router = TRUE
  /\ timers \in EarlierTimers
  /\ patterns \in EarlierPatterns
  /\ scheduler_requests = <<>>
  /\ subscription_requests = <<>>
  /\ calls = [c \in Callers |-> NoCall]
  /\ tasks = [t \in TaskIds |-> NoTask]
  /\ shutdown_invoked = FALSE
  /\ last_return = [op |-> "none", ret |-> "none"]
  /\ ctx = [p \in Plugins |-> HostContext(PluginName(p), <<>>, PermissionsAll)]
  /\ kv_calls = <<>>
  /\ host_ret = NoHostRet
  /\ NoRegistry
  /\ fn_args = [sched |-> <<>>, sub |-> <<>>]
  /\ fn_result = NoResult

NextServing ==
  \/ \E c \in Callers : handle_begin(c)
  \/ \E c \in Callers : handle_finish(c)
  \/ \E c \in Callers : process_scheduler_commands(c)
  \/ \E c \in Callers : process_subscription_commands(c)
  \/ \E c \in Callers : call_shutdown_begin(c)
  \/ \E c \in Callers : call_shutdown_cancel_all(c)
  \/ \E c \in Callers : call_shutdown_unsubscribe_all(c)
  \/ \E c \in Callers : call_shutdown_finish(c)
  \/ \E t \in Callers : blocking_lock(t)
  \/ \E t \in Callers, out \in {"ok", "garbage", "fault", "panic"} : blocking_finish(t, out)
  \/ \E t \in Callers, name \in GuestTimerNames :
       guest_schedule_timer(t, [kind |-> "valid", name |-> name, repeating |-> TRUE])
  \/ \E t \in Callers, name \in GuestTimerNames : guest_cancel_timer(t, name)
  \/ \E t \in Callers, pattern \in GuestPatterns :
       guest_hook_subscribe(t, [kind |-> "valid", pattern |-> pattern])
  \/ \E t \in Callers, pattern \in GuestPatterns : guest_hook_unsubscribe(t, pattern)

SpecServing == InitServing /\ [][NextServing]_vars

(***************************************************************************)
(* SpecGrants: the guests of two plugins, each granted nothing or          *)
(* everything, call the host functions that reach a store or a service.    *)
(* fn_args holds the service executors of the host context.               *)
(***************************************************************************)
\* names of the ServiceExecutors the node hands to every plugin
ServiceNames == {"docs"}

\* the JSON of a service_execute request: unparseable, without a "service"
\* field, or naming a service
ServiceRequests ==
  [json_ok : {TRUE}, service : {"missing", "docs", "jobs"}]
    \cup {[json_ok |-> FALSE, service |-> "missing"]}

\* service_execute_impl: the executor named by the request is called; its
\* tagged string is the result
service_execute_impl(service_executors, request, exec_ok) ==
  IF ~request.json_ok THEN Rejected(HostErr("invalid_json"))
  ELSE IF request.service = "missing" THEN Rejected(HostErr("missing_service"))
  ELSE IF request.service \notin service_executors THEN Rejected(HostErr("unknown_service"))
  ELSE [ret |-> IF exec_ok THEN HostOk ELSE HostErr("service_failed"),
        calls |-> << StoreReq("service", request.service, <<>>) >>]

\* service_execute as registered: the closure calls service_execute_impl
\* and nothing else; no flag of c.permissions is consulted
service_execute(c, service_executors, request, exec_ok) ==
  service_execute_impl(service_executors, request, exec_ok)

\* registered only when the context has executors
host_service_execute(p, request, exec_ok) ==
  /\ fn_args.service_executors # {}
  /\ HostCall(p, "service_execute", request.service,
              service_execute(ctx[p], fn_args.service_executors, request, exec_ok))

InitGrants ==
  /\ InitHandler
  /\ NoRegistry
  /\ \E m1 \in {PermissionsDefault, PermissionsAll}, m2 \in {PermissionsDefault, PermissionsAll} :
       ctx = [p \in Plugins |-> HostContext(PluginName(p), <<>>, IF p = 1 THEN m1 ELSE m2)]
  /\ kv_calls = <<>>
  /\ host_ret = NoHostRet
  /\ fn_args \in [service_executors : SUBSET ServiceNames]
  /\ fn_result = NoResult

NextGrants ==
  \/ \E p \in Plugins, key \in HostKeys, reply \in {"found", "not_found", "error"} :
       host_kv_get(p, key, reply)
  \/ \E p \in Plugins, key \in HostKeys, utf8 \in BOOLEAN, store_ok \in BOOLEAN :
       host_kv_put(p, key, utf8, store_ok)
  \/ \E p \in Plugins, key \in HostKeys, store_ok \in BOOLEAN : host_kv_delete(p, key, store_ok)
  \/ \E p \in Plugins, key \in HostKeys, utf8 \in BOOLEAN, store_ok \in BOOLEAN :
       host_kv_cas(p, key, utf8, store_ok)
  \/ \E p \in Plugins, prefix \in ScanPrefixes, store_ok \in BOOLEAN :
       host_kv_scan(p, prefix, store_ok)
  \/ \E p \in Plugins, input \in BatchInputs, fail_at \in 0..MaxBatch :
       host_kv_batch(p, input, fail_at)
  \/ \E p \in Plugins, request \in ExecRequests : host_kv_execute(p, request)
  \/ \E p \in Plugins, request \in ServiceRequests, exec_ok \in BOOLEAN :
       host_service_execute(p, request, exec_ok)

SpecGrants == InitGrants /\ [][NextGrants]_vars

(***************************************************************************)
(* Properties                                                              *)
(***************************************************************************)
\* C1: at most one guest entry point executes in the sandbox at any instant,
\* under every interleaving of handle, the lifecycle calls, timer callbacks
\* and event deliveries, including closures whose caller already timed out.
SandboxMutualExclusion ==
  \A t \in TaskIds, u \in TaskIds :
    (tasks[t].st = "running" /\ tasks[u].st = "running") => t = u

\* a closure abandoned by its caller runs the guest while another waits for the lock
SandboxContended ==
  \E t \in TaskIds, u \in TaskIds :
    /\ t # u
    /\ tasks[t].st = "running" /\ ~tasks[t].waited
    /\ tasks[u].st = "queued"

\* C5: the step of call_init that takes the result of plugin_init leaves the
\* state Ready exactly when call_init is going to return Ok, and Failed when it
\* is going to return Err; in the Err case neither the scheduler nor the
\* event router is created.
InitEndsReadyOrFailed ==
  [][\A c \in Callers :
       (calls[c].op = "call_init" /\ calls[c].pc = "await" /\ calls'[c] # calls[c]) =>
         LET ok == IF calls'[c].pc = "returned" THEN last_return'.ret = "Ok"
                                                 ELSE calls'[c].ret = "Ok"
         IN IF ok THEN state' = "Ready"
                  ELSE /\ state' = "Failed"
                       /\ scheduler' = scheduler
                       /\ event_router' = event_router]_vars

\* C6: every call_shutdown eventually returns, and the step in which it
\* returns leaves the state Stopped, whatever the guest does (success, error,
\* panic, never returning, or the lock held by a wedged earlier call).
ShutdownReturnsStopped ==
  /\ \A c \in Callers : (calls[c].op = "call_shutdown") ~> (calls[c].pc = "returned")
  /\ [][\A c \in Callers :
          (calls[c].op = "call_shutdown" /\ calls'[c].pc = "returned") => state' = "Stopped"]_vars

\* call_shutdown has returned Ok and left Stopped while its closure still
\* waits for the lock that a wedged earlier closure holds
ShutdownReturnedWhileWedged ==
  /\ last_return = [op |-> "call_shutdown", ret |-> "Ok"]
  /\ state = "Stopped"
  /\ \E t \in TaskIds, u \in TaskIds :
       /\ tasks[t].st = "queued" /\ tasks[t].fn = "plugin_shutdown"
       /\ tasks[u].st = "running" /\ sandbox.holder = u

\* C7: Stopped and Failed are terminal for call_health, handle, timer firings
\* and event deliveries: a step that changes the state away from Stopped or
\* Failed is a step of call_init or call_shutdown.
TerminalStatesStay ==
  [][(state \in {"Stopped", "Failed"} /\ state' # state) =>
       \E c \in Callers :
         /\ calls'[c] # calls[c]
         /\ {calls[c].op, calls'[c].op} \cap {"call_init", "call_shutdown"} # {}]_vars

\* the step in which caller c enters handle
HandleBegins(c) ==
  /\ calls[c].pc = "idle"
  /\ \/ calls'[c].op = "handle"
     \/ calls'[c].pc = "returned" /\ last_return'.op = "handle"

NoCallbackAfterShutdown ==
  ( /\ shutdown_invoked
    /\ state \in {"Stopping", "Stopped"}
    /\ \A n \in TimerNames : timers[n].pc = "none"
    /\ patterns = {} ) =>
    \A t \in TaskIds :
      ~(tasks[t].st = "running" /\ tasks[t].fn \in {"plugin_on_timer", "plugin_on_hook_event"})

\* C10: the commands guest invocations enqueue are applied before the handler
\* returns, also when the guest fails: the step in which handle returns after
\* its guest invocation has ended, with no other invocation in the sandbox,
\* leaves no command in the queues of an initialized plugin.
HandleDrainsBeforeReturn ==
  [][\A c \in Callers :
       ( /\ calls[c].op = "handle" /\ calls[c].pc = "await"
         /\ tasks[c].st = "done" /\ tasks[c].out # "poisoned"
         /\ sandbox.holder = 0
         /\ scheduler /\ event_router
         /\ calls'[c].pc = "returned" ) =>
         (scheduler_requests' = <<>> /\ subscription_requests' = <<>>)]_vars

\* a write call: kv_put, kv_delete, kv_cas, kv_batch, or kv_execute with a
\* mutating operation
IsWriteCall ==
  \/ host_ret.fn \in {"kv_put", "kv_delete", "kv_cas", "kv_batch"}
  \/ /\ host_ret.fn = "kv_execute"
     /\ host_ret.op \in {"write", "delete", "batch_write", "cas", "cad", "conditional_batch"}

\* C2: a write call of a plugin whose kv_write is false sends nothing to the
\* store and returns an error.
WriteNeedsKvWrite ==
  (host_ret.plugin \in Plugins /\ IsWriteCall /\ ~ctx[host_ret.plugin].permissions.kv_write) =>
    (kv_calls = <<>> /\ host_ret.tag # 0)

\* C3: every key or scan prefix a key-value host function sends to the store,
\* kv_execute included, is within the allowed prefixes of the calling plugin.
StoreKeysWithinPrefixes ==
  host_ret.plugin \in Plugins =>
    \A i \in DOMAIN kv_calls : \A j \in DOMAIN kv_calls[i].keys :
      validate_key_prefix(ctx[host_ret.plugin].allowed_kv_prefixes, kv_calls[i].keys[j])

\* C4: two distinct plugins without explicit prefixes have disjoint
\* namespaces: no key passes the prefix validation of both.
DefaultNamespacesDisjoint ==
  \A p \in Plugins, q \in Plugins :
    ( /\ p # q
      /\ ctx[p].plugin_name # ctx[q].plugin_name
      /\ ctx[p].allowed_kv_prefixes = with_kv_prefixes(ctx[p].plugin_name, <<>>)
      /\ ctx[q].allowed_kv_prefixes = with_kv_prefixes(ctx[q].plugin_name, <<>>) ) =>
      \A key \in HostKeys :
        ~( /\ validate_key_prefix(ctx[p].allowed_kv_prefixes, key)
           /\ validate_key_prefix(ctx[q].allowed_kv_prefixes, key) )

\* C11: a timer task that schedule replaced under its name never invokes the
\* guest's timer entry point from the replacement on: no closure whose timer
\* task schedule aborted before the closure entered the guest runs the guest.
ReplacedTimerNeverFires ==
  \A t \in TimerTaskIds :
    ~(tasks[t].st = "running" /\ tasks[t].fn = "plugin_on_timer" /\ tasks[t].aborted = "schedule")

\* C12: the number of timers never exceeds MAX_TIMERS_PER_PLUGIN; schedule of
\* a new name at the limit returns an error and leaves the timer map and the
\* tasks unchanged; schedule under a name in the map succeeds, also at the
\* limit.
TimerLimit ==
  /\ TimerCount(timers) <= MAX_TIMERS_PER_PLUGIN
  /\ \A name \in DOMAIN timers, repeating \in BOOLEAN :
       LET r == schedule(timers, tasks, [name |-> name, repeating |-> repeating])
       IN /\ (timers[name].pc = "none" /\ TimerCount(timers) >= MAX_TIMERS_PER_PLUGIN) =>
               (~r.ok /\ r.timers = timers /\ r.tasks = tasks)
          /\ timers[name].pc # "none" =>
               (r.ok /\ TimerCount(r.timers) = TimerCount(timers))

\* schedule of a further name has just been refused at the limit, one of the
\* timers in the map being a one-shot timer that has already run
TimerRefusedAtLimit ==
  /\ last_return = [op |-> "schedule", ret |-> "Err"]
  /\ TimerCount(timers) = MAX_TIMERS_PER_PLUGIN
  /\ \E n \in DOMAIN timers : timers[n].pc = "finished"

\* C13: subscribe is idempotent: subscribing a pattern that is in the set
\* returns Ok and leaves the set, and so its count, unchanged, also when the
\* set is at MAX_HOOK_SUBSCRIPTIONS_PER_PLUGIN.
SubscribeIdempotent ==
  \A pattern \in patterns :
    subscribe(patterns, pattern) = [ok |-> TRUE, patterns |-> patterns]

\* subscribe has just returned Ok on a set that was already at the limit
SubscribedAgainAtLimit ==
  /\ last_return = [op |-> "subscribe", ret |-> "Ok",
                    before |-> MAX_HOOK_SUBSCRIPTIONS_PER_PLUGIN]
  /\ Cardinality(patterns) = MAX_HOOK_SUBSCRIPTIONS_PER_PLUGIN

\* C14: the number of subscribed patterns never exceeds
\* MAX_HOOK_SUBSCRIPTIONS_PER_PLUGIN after any sequence of subscribe,
\* unsubscribe and unsubscribe_all; subscribe of a new pattern at the limit
\* returns an error and leaves the set unchanged.
SubscriptionLimit ==
  /\ Cardinality(patterns) <= MAX_HOOK_SUBSCRIPTIONS_PER_PLUGIN
  /\ \A pattern \in RouterPatterns \ patterns :
       Cardinality(patterns) >= MAX_HOOK_SUBSCRIPTIONS_PER_PLUGIN =>
         subscribe(patterns, pattern) = [ok |-> FALSE, patterns |-> patterns]

\* subscribe of a new pattern has just been refused at the limit
SubscribeRefusedAtLimit ==
  /\ last_return = [op |-> "subscribe", ret |-> "Err",
                    before |-> MAX_HOOK_SUBSCRIPTIONS_PER_PLUGIN]
  /\ Cardinality(patterns) = MAX_HOOK_SUBSCRIPTIONS_PER_PLUGIN

\* C15: pattern_matches agrees with the grammar for every pattern and topic:
\* a literal token equals its segment, `*` matches exactly one segment, `>`
\* matches zero or more trailing segments (`a.>` matches `a`, `>` alone
\* matches every topic), and a pattern without `>` matches only topics with
\* as many segments as it has tokens.
PatternMatchesGrammar ==
  /\ fn_result.done =>
       LET pattern_parts == split(fn_args.pattern)
           topic_parts == split(fn_args.topic)
       IN /\ fn_result.value = GrammarMatches(pattern_parts, topic_parts)
          /\ pattern_parts = <<">">> => fn_result.value
          /\ (fn_result.value /\ \A i \in DOMAIN pattern_parts : pattern_parts[i] # ">") =>
               Len(topic_parts) = Len(pattern_parts)
  /\ pattern_matches(<<"a", ">">>, <<"a">>)
  /\ ~pattern_matches(<<"a", "*">>, <<"a">>)
  /\ ~pattern_matches(<<"a", "*">>, <<"a", "b", "a">>)

\* `a.>` has been matched against `a`: `>` took zero segments
GreaterMatchedNoSegment ==
  /\ fn_args = [pattern |-> <<"a", ".", ">">>, topic |-> <<"a">>]
  /\ fn_result = [done |-> TRUE, value |-> TRUE]

\* the steps of deliver in caller c: without a matching pattern it returns
\* false and spawns nothing; with one or several it spawns one closure for
\* plugin_on_hook_event; whatever the closure's result, or on timeout, it
\* returns true
DeliverSteps(c) ==
  /\ \A topic \in RouterTopics :
       deliver_begin(c, topic) =>
         IF has_matching_subscription(patterns, topic)
           THEN /\ calls'[c].op = "deliver" /\ calls'[c].pc = "await"
                /\ tasks'[c] = SpawnBlocking("plugin_on_hook_event")
                /\ \A t \in TaskIds \ {c} : tasks'[t] = tasks[t]
           ELSE /\ last_return' = [op |-> "deliver", ret |-> "false"]
                /\ tasks' = tasks
  /\ deliver_finish(c) => last_return' = [op |-> "deliver", ret |-> "true"]

\* the closure deliver spawned for caller c stops waiting for the sandbox
DeliverClosureLeavesQueue(c) ==
  /\ tasks[c].fn = "plugin_on_hook_event"
  /\ tasks[c].st = "queued"
  /\ tasks'[c].st # "queued"

\* C16: deliver returns false and makes no guest invocation when no
\* subscribed pattern matches the topic; when at least one matches, its one
\* closure invokes plugin_on_hook_event (exactly once, however many patterns
\* match) and deliver returns true, also when the guest fails or times out.
DeliverInvokesGuestOnce ==
  [][\A c \in Callers :
       /\ DeliverSteps(c)
       /\ DeliverClosureLeavesQueue(c) =>
            (tasks'[c].st = "running" /\ sandbox'.holder = c)]_vars

\* C16, amended: as above, except that the closure invokes the guest at most
\* once: when it finds the sandbox mutex poisoned it returns without any
\* guest invocation, and deliver returns true all the same.
DeliverInvokesGuestUnlessPoisoned ==
  [][\A c \in Callers :
       /\ DeliverSteps(c)
       /\ DeliverClosureLeavesQueue(c) =>
            IF sandbox.poisoned
              THEN tasks'[c].st \in {"done", "free"} /\ sandbox' = sandbox
              ELSE tasks'[c].st = "running" /\ sandbox'.holder = c]_vars

\* two subscribed patterns match the topic being delivered, and the closure
\* of deliver has ended on the poisoned mutex without calling the guest
DeliverSkippedOnPoison ==
  \E c \in Callers :
    /\ calls[c].op = "deliver" /\ calls[c].pc = "await"
    /\ tasks[c].st = "done" /\ tasks[c].out = "poisoned"
    /\ patterns = {<<"hooks", ">">>, <<">">>}

\* C17: load_all returns and stores exactly the manifests that are enabled
\* and parse, fetch, load and initialize successfully, each handler Ready:
\* every iteration goes on to the next manifest, adding a Ready handler
\* exactly when all of it succeeded, and when load_all returns Ok the registry
\* holds exactly the handlers returned; a failing manifest never makes
\* load_all fail.
LoadAllStoresSuccesses ==
  [][\A c \in RegistryCallers :
       /\ \A input \in LoadInputs :
            load_all_entry(c, input) =>
              LET entry == Head(registry_calls[c].todo)
                  before == registry_calls[c]
                  after == registry_calls'[c]
              IN /\ after.pc = "load" /\ after.todo = Tail(before.todo)
                 /\ IF input.content = "enabled" /\ input.env = "ok" /\ input.out = "ok"
                      THEN \E h \in HandlerIds :
                             /\ handlers[h] = NoHandler
                             /\ handlers' = [handlers EXCEPT ![h] =
                                               [name |-> entry.name, state |-> "Ready"]]
                             /\ after.result = before.result \cup {h}
                             /\ after.new_plugins = [before.new_plugins EXCEPT ![entry.name] = h]
                      ELSE /\ handlers' = handlers
                           /\ after.result = before.result
                           /\ after.new_plugins = before.new_plugins
       /\ ( /\ registry_calls[c].op = "load_all" \/ registry_calls[c].pc = "idle"
            /\ registry_calls'[c].pc = "returned"
            /\ last_return'.op = "load_all"
            /\ last_return'.ret = "Ok" ) =>
            /\ {plugins'[n] : n \in RegistryNames} \ {0} = last_return'.value
            /\ \A h \in last_return'.value : handlers'[h].state = "Ready"]_vars

\* C18: while reload_one runs for a name whose manifest exists and that had an
\* entry, the registry keeps an entry for that name at every point where an
\* observer (handler_snapshot, health_one, len) can read it: the old instance
\* until the fresh one is inserted, and still an entry after a failed load or
\* init of the fresh instance.
ReloadOneKeepsEntry ==
  \A c \in RegistryCallers :
    ( /\ registry_calls[c].op = "reload_one"
      /\ registry_calls[c].manifest = "present"
      /\ registry_calls[c].old # 0
      /\ registry_calls[c].pc \in {"load", "insert"}
      /\ read_available ) =>
      plugins[registry_calls[c].name] # 0

\* C19: shutdown_all drains every loaded handler and calls shutdown on each,
\* a failed shutdown included: when the loop ends every handler that was in
\* the registry is Stopped and the registry is empty; reload_all loads no
\* fresh plugin before that.
ShutdownAllStopsEverything ==
  [][\A c \in RegistryCallers :
       /\ (\E op \in {"shutdown_all", "reload_all"} : shutdown_all_begin(c, op)) =>
            /\ registry_calls'[c].drained = {plugins[n] : n \in RegistryNames} \ {0}
            /\ Range(registry_calls'[c].todo) = registry_calls'[c].drained
       /\ shutdown_all_end(c) =>
            /\ \A h \in registry_calls[c].drained : handlers'[h].state = "Stopped"
            /\ \A n \in RegistryNames : plugins'[n] = 0
       /\ ( /\ registry_calls[c].op = "reload_all"
            /\ \E input \in LoadInputs : load_all_entry(c, input) ) =>
            \A h \in registry_calls[c].drained : handlers[h].state = "Stopped"]_vars

\* shutdown_all has gone through two loaded handlers, the shutdown of one of
\* them having failed
ShutdownAllPastFailure ==
  \E c \in RegistryCallers :
    /\ registry_calls[c].op = "shutdown_all"
    /\ registry_calls[c].pc = "drain" /\ registry_calls[c].todo = <<>>
    /\ Cardinality(registry_calls[c].drained) = 2
    /\ registry_calls[c].warned # {}
    /\ \A h \in registry_calls[c].drained : handlers[h].state = "Stopped"

\* C20: a handle that is the first call made on a handler as load_wasm_handler
\* returns it (the state WasmPluginHandler::new leaves, no lifecycle call
\* made) dispatches the request to the guest instead of rejecting it.
LoadedHandlerDispatches ==
  [][\A c \in Callers :
       ( /\ handle_begin(c)
         /\ \A d \in Callers : calls[d] = NoCall
         /\ last_return.op = "none" ) =>
         /\ calls'[c].op = "handle" /\ calls'[c].pc = "await"
         /\ tasks'[c].st = "queued"
         /\ last_return' = last_return]_vars

\* C21: can_handle(request) is true exactly when the request's variant name
\* is an element of the handles list, in every lifecycle state of the handler.
CanHandleIffDeclared ==
  fn_result.done =>
    fn_result.value = (fn_args.request.variant \in {fn_args.handles[i] : i \in DOMAIN fn_args.handles})

\* a stopped handler still answers true for a variant it declares second
CanHandleWhileStopped ==
  /\ fn_result.done /\ fn_result.value
  /\ state = "Stopped"
  /\ Len(fn_args.handles) = 2 /\ fn_args.handles[1] # fn_args.request.variant

\* C22: a kv_batch whose plugin lacks kv_write, or one of whose keys (at any
\* position) is outside the allowed prefixes, returns an error and sends no
\* set or delete to the store.
BatchAdmittedWhole ==
  ( /\ fn_result.done
    /\ \/ ~ctx[fn_args.p].permissions.kv_write
       \/ \E i \in DOMAIN fn_args.input.ops :
            ~validate_key_prefix(ctx[fn_args.p].allowed_kv_prefixes, fn_args.input.ops[i].key) ) =>
    /\ kv_calls = <<>>
    /\ host_ret.tag = 1

\* a batch of a plugin with kv_write was rejected for its second key, the
\* first being inside the namespace, and nothing reached the store
BatchRejectedForSecondKey ==
  /\ fn_result.done
  /\ ctx[fn_args.p].permissions.kv_write
  /\ Len(fn_args.input.ops) = 2
  /\ validate_key_prefix(ctx[fn_args.p].allowed_kv_prefixes, fn_args.input.ops[1].key)
  /\ ~validate_key_prefix(ctx[fn_args.p].allowed_kv_prefixes, fn_args.input.ops[2].key)
  /\ host_ret.reason = "namespace_violation"
  /\ kv_calls = <<>>

\* the namespace check accepts exactly when no prefix is allowed or the
\* string continues one of the allowed prefixes; a string that is only a
\* strict prefix of allowed prefixes is rejected
NamespaceCheckIsPrefixTest ==
  fn_result.done =>
    /\ fn_result.value =
         ( \/ fn_args.allowed = <<>>
           \/ \E i \in DOMAIN fn_args.allowed : IsPrefixOf(fn_args.allowed[i], fn_args.s) )
    /\ ( /\ fn_args.allowed # <<>>
         /\ \A i \in DOMAIN fn_args.allowed :
              IsPrefixOf(fn_args.s, fn_args.allowed[i]) /\ fn_args.s # fn_args.allowed[i] ) =>
         ~fn_result.value

ResolvedPrefixesNeverEmpty ==
  fn_result.done =>
    /\ fn_result.value.name # <<>>
    /\ fn_args.prefixes = <<>> =>
         /\ Len(fn_result.value.name) = 1 /\ Len(fn_result.value.other) = 1
         /\ (fn_args.name = fn_args.other) = (fn_result.value.name[1] = fn_result.value.other[1])
         /\ starts_with(fn_result.value.name[1], DEFAULT_PLUGIN_KV_PREFIX_TEMPLATE)
    /\ fn_args.prefixes # <<>> => fn_result.value.name = fn_args.prefixes

\* two names, one a strict prefix of the other, resolved to different defaults
DefaultsOfNestedNamesDiffer ==
  /\ fn_result.done
  /\ fn_args.prefixes = <<>>
  /\ fn_args.name = <<"a">> /\ fn_args.other = <<"a", ":">>
  /\ fn_result.value.name # fn_result.value.other

\* what went wrong in a call that found no value to report
OptionErrors == {"permission_denied", "namespace_violation", "invalid_hash", "store_failed"}

\* the call fn_args names was refused by the permission or the namespace check
OptionDenied ==
  \/ fn_args.fn = "kv_get" /\ ~ctx[fn_args.p].permissions.kv_read
  \/ fn_args.fn = "kv_get"
       /\ ~validate_key_prefix(ctx[fn_args.p].allowed_kv_prefixes, fn_args.key)
  \/ fn_args.fn = "blob_get" /\ ~ctx[fn_args.p].permissions.blob_read

\* C25 as stated: kv_get and blob_get return tag 0 for a found value, tag 1
\* for an error and tag 2 for 'not found'; a permission or namespace denial
\* carries the error tag.
OptionTagsErrorOneAbsentTwo ==
  fn_result.done =>
    /\ host_ret.tag \in {0, 1, 2}
    /\ (host_ret.tag = 0) = (host_ret.reason = "ok")
    /\ (host_ret.tag = 1) = (host_ret.reason \in OptionErrors)
    /\ (host_ret.tag = 2) = (host_ret.reason = "not_found")
    /\ OptionDenied => host_ret.tag = 1

\* C25 as the code has it: kv_get and blob_get return tag 0 for a found
\* value, tag 1 for 'not found' and tag 2 for an error; a permission or
\* namespace denial carries the error tag 2 and nothing is read.
OptionTagsAbsentOneErrorTwo ==
  fn_result.done =>
    /\ host_ret.tag \in {0, 1, 2}
    /\ (host_ret.tag = 0) = (host_ret.reason = "ok")
    /\ (host_ret.tag = 1) = (host_ret.reason = "not_found")
    /\ (host_ret.tag = 2) = (host_ret.reason \in OptionErrors)
    /\ OptionDenied => (host_ret.tag = 2 /\ kv_calls = <<>>)
    /\ (~OptionDenied /\ (fn_args.fn = "blob_get" => fn_args.hash_ok)) =>
         host_ret.tag = CASE fn_args.reply = "found" -> 0
                          [] fn_args.reply = "not_found" -> 1
                          [] OTHER -> 2

\* blob_get found no blob under a hash that parses and returned tag 1
BlobAbsentTaggedOne ==
  /\ fn_result.done
  /\ fn_args.fn = "blob_get" /\ fn_args.hash_ok /\ fn_args.reply = "not_found"
  /\ ctx[fn_args.p].permissions.blob_read
  /\ host_ret.tag = 1

\* C26: decoding the encoding of a byte string gives the byte string back,
\* for the empty string and every length, a multiple of three or not; the
\* encoding has four characters for every three bytes begun.
Base64RoundTrip ==
  fn_result.done =>
    /\ fn_result.value.decoded = [ok |-> TRUE, bytes |-> fn_args.data]
    /\ Len(fn_result.value.encoded) = 4 * ((Len(fn_args.data) + 2) \div 3)

\* four bytes went through: one full chunk and one byte padded with "=="
Base64PaddedRoundTrip ==
  /\ fn_result.done
  /\ Len(fn_args.data) = 4 /\ fn_args.data[4] = 255
  /\ SubSeq(fn_result.value.encoded, 5, 8) = <<"/", "w", "=", "=">>
  /\ fn_result.value.decoded.bytes = fn_args.data

\* C27: the step in which call_health takes the result of its check returns
\* healthy and leaves the state as it is exactly when the guest reported ok in
\* time; on every other result (not ok, unparseable, fault, panic, poisoned
\* lock, timeout) it returns degraded and the state becomes Degraded.  It
\* never makes the state Failed.
HealthNeverFails ==
  [][\A c \in Callers :
       call_health_finish(c) =>
         /\ last_return'.op = "call_health"
         /\ IF tasks[c].st = "done" /\ tasks[c].out = "ok"
              THEN last_return'.ret = "healthy" /\ state' = state
              ELSE last_return'.ret = "degraded" /\ state' = "Degraded"
         /\ state' = "Failed" => state = "Failed"]_vars

\* a health check timed out: it returned degraded, the plugin is Degraded
\* and the closure is still on its way
HealthTimedOutDegraded ==
  /\ last_return = [op |-> "call_health", ret |-> "degraded"]
  /\ state = "Degraded"
  /\ \E t \in Callers :
       /\ tasks[t].fn = "plugin_health" /\ ~tasks[t].waited
       /\ tasks[t].st \in {"queued", "running"}

\* C28: a health check that reports ok on a Degraded plugin returns it to
\* Ready.
HealthOkRestoresReady ==
  [][\A c \in Callers :
       ( /\ call_health_finish(c)
         /\ state = "Degraded"
         /\ last_return'.ret = "healthy" ) =>
         state' = "Ready"]_vars

\* C29: health_all does not serialize across plugins: while the health check
\* of one plugin is outstanding (slow, wedged, or on its way to the timeout),
\* no other plugin of the same health_all is still waiting for its check to
\* be started.
HealthAllDoesNotSerialize ==
  \A c \in RegistryCallers :
    (registry_calls[c].op = "health_all" /\ registry_calls[c].pc = "health") =>
      registry_calls[c].todo = <<>>

\* C30: the registry never holds more than MAX_PLUGINS plugins, whatever
\* load_all, reload_all and reload_one did to it.
RegistryBounded ==
  Cardinality({n \in RegistryNames : plugins[n] # 0}) <= MAX_PLUGINS

\* C31: call_shutdown sets Stopping, then cancels every timer and clears
\* every subscription, and only then invokes plugin_shutdown: when the closure
\* of plugin_shutdown enters the guest its caller is past both steps, and the
\* timer map and the subscription set are empty.
ShutdownInvokedAfterCleanup ==
  [][\A t \in Callers :
       (tasks[t].fn = "plugin_shutdown" /\ tasks[t].st = "queued" /\ tasks'[t].st = "running")
         => /\ calls[t].op = "call_shutdown" => calls[t].pc = "await"
            /\ TimerCount(timers) = 0
            /\ patterns = {}]_vars

\* a step of the task of timer name itself: no caller of the handler moves
TimerTaskStep(name) ==
  /\ timers'[name] # timers[name]
  /\ calls' = calls

CommandOf(fn, input) ==
  CASE fn = "schedule_timer" ->
         [type |-> "Schedule", name |-> input.name, repeating |-> input.repeating]
    [] fn = "cancel_timer" -> [type |-> "Cancel", name |-> input.name, repeating |-> FALSE]
    [] fn = "hook_subscribe" -> [type |-> "Subscribe", pattern |-> input.pattern]
    [] OTHER -> [type |-> "Unsubscribe", pattern |-> input.pattern]

\* C33: schedule_timer, cancel_timer, hook_subscribe and hook_unsubscribe
\* leave the timer map, the subscription set and the sandbox lock alone; a
\* call that returns the success tag appended exactly its one command to the
\* end of its queue, a call that returns an error appended nothing.
HostCommandsOnlyEnqueue ==
  [][LET fn == fn_args'.fn
         cmd == CommandOf(fn, fn_args'.input)
         own == IF fn \in {"schedule_timer", "cancel_timer"}
                  THEN <<scheduler_requests, scheduler_requests'>>
                  ELSE <<subscription_requests, subscription_requests'>>
         other == IF fn \in {"schedule_timer", "cancel_timer"}
                    THEN <<subscription_requests, subscription_requests'>>
                    ELSE <<scheduler_requests, scheduler_requests'>>
     IN /\ timers' = timers
        /\ patterns' = patterns
        /\ sandbox' = sandbox
        /\ tasks' = tasks
        /\ other[2] = other[1]
        /\ own[2] = IF host_ret'.tag = 0 THEN Append(own[1], cmd) ELSE own[1]]_vars

\* C33 witness: a schedule_timer refused for its name after an earlier call
\* was queued, next to a timer in the map.
RefusedScheduleQueuedNothing ==
  /\ host_ret.fn = "schedule_timer"
  /\ host_ret.reason = "err_name_long"
  /\ Len(scheduler_requests) = 1
  /\ \E name \in TimerNames : timers[name].pc = "sleeping"

\* every call made so far has returned and no command waits in a queue
Drained ==
  /\ \A c \in Callers : calls[c].pc \in {"idle", "returned"}
  /\ scheduler_requests = <<>>
  /\ subscription_requests = <<>>

\* the command the guest enqueued last in history h is of type type
EnqueuedLast(h, type) == h # <<>> /\ h[Len(h)].type = type

\* C34: commands of concurrent handle calls take effect in the order the guest
\* enqueued them: when the handle calls have returned and the queues are
\* empty, a timer whose last command was Cancel is not in the map, and a
\* pattern whose last command was Unsubscribe is not subscribed.
CommandsTakeEffectInOrder ==
  (state = "Ready" /\ Drained) =>
    /\ EnqueuedLast(fn_args.sched, "Cancel") =>
         \A name \in GuestTimerNames : timers[name].pc = "none"
    /\ EnqueuedLast(fn_args.sub, "Unsubscribe") =>
         \A pattern \in GuestPatterns : pattern \notin patterns

\* C35: the success tag is truthful: when a handle call that ran alone
\* returns with the queues drained, a timer whose last accepted command was
\* Schedule is in the map and a pattern whose last accepted command was
\* Subscribe is subscribed (a request over the limit is refused to the guest,
\* never accepted and dropped).
AcceptedCommandTakesEffect ==
  [][\A c \in Callers :
       ( /\ calls[c].op = "handle"
         /\ calls'[c].pc = "returned"
         /\ \A d \in Callers \ {c} : calls[d].pc = "idle"
         /\ scheduler_requests' = <<>>
         /\ subscription_requests' = <<>> )
       => /\ EnqueuedLast(fn_args.sched, "Schedule") =>
               \A name \in GuestTimerNames : timers'[name].pc # "none"
          /\ EnqueuedLast(fn_args.sub, "Subscribe") =>
               \A pattern \in GuestPatterns : pattern \in patterns']_vars

\* C36: once call_shutdown has returned (the state is Stopped), the timer map
\* and the subscription set are empty, whatever a handle call that was
\* dispatched before the shutdown does afterwards.
StoppedPluginHasNoTimers ==
  state = "Stopped" => (TimerCount(timers) = 0 /\ patterns = {})

\* C37: handle_request runs in the guest only of a plugin whose plugin_init
\* completed successfully (call_init has set the scheduler and the router).
HandleOnlyAfterInit ==
  \A t \in Callers :
    (tasks[t].fn = "handle_request" /\ tasks[t].st = "running") => (scheduler /\ event_router)

\* the handlers a registry map holds
Stored(map) == {map[n] : n \in RegistryNames} \ {0}

\* C38: a handler leaves the registry only to be shut down: whenever a stored
\* handler that is Ready or Degraded is removed or overwritten, the caller
\* that took it out holds it for call_shutdown (the drain of shutdown_all or
\* reload_all, or the old instance of reload_one).
RemovedHandlerIsShutDown ==
  [][\A h \in Stored(plugins) \ Stored(plugins') :
       handlers[h].state \in {"Ready", "Degraded"} =>
         \E c \in RegistryCallers :
           \/ /\ registry_calls'[c].pc = "drain"
              /\ h \in Range(registry_calls'[c].todo)
           \/ /\ registry_calls'[c].pc = "shutdown_old"
              /\ registry_calls'[c].old = h]_vars

\* C39: default deny: no host function called by a plugin whose grant denies
\* every capability reaches the key-value store or a service executor.
DeniedPluginReachesNothing ==
  (host_ret.plugin \in Plugins /\ ctx[host_ret.plugin].permissions = PermissionsDefault)
    => kv_calls = <<>>

\* C40: the timer map holds exactly the timers that can still fire: a
\* non-repeating timer that has fired is no longer an entry of the map (it
\* does not count toward the limit, cancel of its name finds nothing).
TimerMapHoldsLiveTimers ==
  \A name \in DOMAIN timers : timers[name].pc \in {"none", "sleeping", "await"}

============================================================================
